---- MODULE Spec2Model ----
(***************************************************************************)
(* A model of the constant-folding / dead-code-elimination core:           *)
(*   - the value/purity lattice of util.rs (as_bool, may_have_side_effects,*)
(*     is_pure_callee, num_from_str),                                      *)
(*   - the side-effect reducer (ignore_result in dce/mod.rs,               *)
(*     preserve_effects / add_effects in util.rs),                         *)
(*   - the statement simplifier (Fold<Vec<T>>, Fold<Stmt>, Fold<SeqExpr>   *)
(*     for Remover in dce/mod.rs).                                         *)
(*                                                                         *)
(* Syntax trees are records tagged by k.  Spans are left out: the core     *)
(* only copies them.  JSX nodes and Expr::Invalid are left out of the      *)
(* grammar: every function of the core aborts on them by design.           *)
(* A Rust panic (unwrap on None, unimplemented!, slice out of range) is    *)
(* the value AbortE / AbortS / AbortV, which every caller propagates.      *)
(***************************************************************************)
EXTENDS Integers, Sequences, FiniteSets, TLC

VARIABLES
    prog,      \* Simplifier: the statement list handed to dce()
    out,       \* Simplifier: the list returned by the first pass
    out2,      \* Simplifier: the list returned by a second pass over out
    passes,    \* Simplifier: number of passes run so far (0..2)
    scope,     \* Simplifier: Remover.scope.vars after the first pass
    expr,      \* Lattice/Reducer: the expression under analysis
    called,    \* Lattice/Reducer: which function was applied to expr last
    res,       \* Lattice/Reducer: what ignore_result / preserve_effects returned
    bres,      \* Lattice/Reducer: what as_bool returned
    str,       \* num_from_str: the string under analysis (sequence of characters)
    nres,      \* as_number / num_from_str: the result, or NotCalled before the call
    sres,      \* as_string: the result, or NotCalled before the call
    inline_all_strings,  \* inline_vars: the configuration flag of the pass
    f64,  \* to_int32: the argument, an integer-valued f64, NaN or an infinity
    ires,  \* to_int32: <<r>> for the i32 r returned, <<>> before the call
    lres,  \* calc_literal_cost: the pair returned, or NotCalled before the call
    ty,  \* RemoveTypes: the type under narrowing
    tres,  \* RemoveTypes: the narrowed type, or NotCalled before the call
    modules,  \* Checker: the module cache, path -> ModuleInfo (0 for no entry)
    current,  \* Checker: the paths marked as being loaded
    threads,  \* load_module: each caller's position, path and local `res`
    parsed,  \* load_module: how many times each path was parsed and analyzed
    returned,  \* load_module: the ModuleInfo values returned for each path
    ncalls  \* load_module: number of calls started

vars == <<prog, out, out2, passes, scope, expr, called, res, bres, str, nres, sres,
          inline_all_strings,
          f64, ires,
          lres,
          ty, tres,
          modules, current, threads, parsed, returned, ncalls>>

----------------------------------------------------------------------------
(* Bounds of the model. *)

MaxDepth == 2
MaxNodes == 3
MaxStrLen == 5
MaxNum == 3

----------------------------------------------------------------------------
(* Expression nodes (ast::Expr). *)

NoneE == [k |-> "None"]
AbortE == [k |-> "Abort"]

Num(n) == [k |-> "Lit", lit |-> "Num", num |-> n]
Bool(b) == [k |-> "Lit", lit |-> "Bool", b |-> b]
Str(s) == [k |-> "Lit", lit |-> "Str", value |-> s]
Null == [k |-> "Lit", lit |-> "Null"]
Regex == [k |-> "Lit", lit |-> "Regex"]
Ident(sym) == [k |-> "Ident", sym |-> sym]
This == [k |-> "This"]
Paren(e) == [k |-> "Paren", expr |-> e]
SeqE(exprs) == [k |-> "Seq", exprs |-> exprs]
Assign(op, left, right) == [k |-> "Assign", op |-> op, left |-> left, right |-> right]
Unary(op, arg) == [k |-> "Unary", op |-> op, arg |-> arg]
Update(op, arg) == [k |-> "Update", op |-> op, arg |-> arg]
Bin(op, left, right) == [k |-> "Bin", op |-> op, left |-> left, right |-> right]
Fn(body) == [k |-> "Fn", body |-> body]
Class == [k |-> "Class"]
New(callee, args) == [k |-> "New", callee |-> callee, args |-> args]
Call(callee, args) == [k |-> "Call", callee |-> callee, args |-> args]
Member(obj, prop) == [k |-> "Member", obj |-> obj, prop |-> prop]
Cond(test, cons, alt) == [k |-> "Cond", test |-> test, cons |-> cons, alt |-> alt]
Tpl(exprs) == [k |-> "Tpl", exprs |-> exprs]
TaggedTpl(tag, exprs) == [k |-> "TaggedTpl", tag |-> tag, exprs |-> exprs]
Await(arg) == [k |-> "Await", arg |-> arg]
Yield(arg) == [k |-> "Yield", arg |-> arg]
ArrayE(elems) == [k |-> "Array", elems |-> elems]
Object(props) == [k |-> "Object", props |-> props]

(* ExprOrSpread, and Option<ExprOrSpread> of an array literal: a hole is   *)
(* the element None.                                                       *)
Arg(e) == [spread |-> FALSE, expr |-> e]
Spread(e) == [spread |-> TRUE, expr |-> e]
Hole == [spread |-> FALSE, expr |-> NoneE]
IsHole(el) == el.expr.k = "None"

(* Prop / PropOrSpread of an object literal. *)
Shorthand == [p |-> "Shorthand"]
KeyValue(computed, key, value) ==
    [p |-> "KeyValue", computed |-> computed, key |-> key, value |-> value]
Accessor(kind, computed, key) == [p |-> kind, computed |-> computed, key |-> key]
SpreadProp(e) == [p |-> "Spread", expr |-> e]

----------------------------------------------------------------------------
(* Value<bool> and Purity (util/value.rs, util.rs). *)

KnownTrue == "KnownTrue"
KnownFalse == "KnownFalse"
Unknown == "Unknown"
Known(b) == IF b THEN KnownTrue ELSE KnownFalse

Pure == "Pure"
MayBeImpure == "MayBeImpure"
Aborted == "Aborted"

(* impl Not for Value<bool> *)
ValueNot(v) ==
    CASE v = KnownTrue -> KnownFalse
      [] v = KnownFalse -> KnownTrue
      [] OTHER -> Unknown

(* Value<bool>::and *)
ValueAnd(a, b) ==
    CASE a = KnownTrue -> b
      [] a = KnownFalse -> KnownFalse
      [] OTHER -> IF b = KnownFalse THEN KnownFalse ELSE Unknown

(* Value<bool>::or *)
ValueOr(a, b) ==
    CASE a = KnownTrue -> KnownTrue
      [] a = KnownFalse -> b
      [] OTHER -> IF b = KnownTrue THEN KnownTrue ELSE Unknown

(* impl Add for Purity *)
PurityAdd(a, b) == IF a = Pure /\ b = Pure THEN Pure ELSE MayBeImpure

----------------------------------------------------------------------------
(* Predicates of ExprExt (util.rs). *)

IsIdentRefTo(e, id) == e.k = "Ident" /\ e.sym = id

IsPureCallee(e) ==
    \/ IsIdentRefTo(e, "Date")
    \/ e.k = "Member" /\ e.obj.k # "Super" /\ IsIdentRefTo(e.obj, "Math")
    \/ e.k = "Fn" /\ e.body = <<>>

RECURSIVE MayHaveSideEffects(_)
PropMayHaveSideEffects(node) ==
    CASE node.p = "Spread" -> MayHaveSideEffects(node.expr)
      [] node.p = "Shorthand" -> FALSE
      [] node.p = "KeyValue" ->
            \/ node.computed /\ MayHaveSideEffects(node.key)
            \/ MayHaveSideEffects(node.value)
      [] OTHER -> TRUE

MayHaveSideEffects(e) ==
    IF IsPureCallee(e) THEN FALSE
    ELSE CASE e.k \in {"Lit", "Ident", "This", "PrivateName"} -> FALSE
           [] e.k = "Paren" -> MayHaveSideEffects(e.expr)
           [] e.k \in {"Fn", "Arrow"} -> FALSE
           [] e.k = "Class" -> TRUE
           [] e.k = "Array" ->
                 \E i \in DOMAIN e.elems :
                     ~IsHole(e.elems[i]) /\ MayHaveSideEffects(e.elems[i].expr)
           [] e.k = "Unary" -> MayHaveSideEffects(e.arg)
           [] e.k = "Bin" ->
                 MayHaveSideEffects(e.left) \/ MayHaveSideEffects(e.right)
           [] e.k \in {"Tpl", "TaggedTpl", "MetaProp"} -> TRUE
           [] e.k \in {"Await", "Yield", "Member", "Update", "Assign"} -> TRUE
           [] e.k = "New" -> TRUE
           [] e.k = "Call" -> ~(e.callee.k # "Super" /\ IsPureCallee(e.callee))
           [] e.k = "Seq" ->
                 \E i \in DOMAIN e.exprs : MayHaveSideEffects(e.exprs[i])
           [] e.k = "Cond" ->
                 \/ MayHaveSideEffects(e.test)
                 \/ MayHaveSideEffects(e.cons)
                 \/ MayHaveSideEffects(e.alt)
           [] e.k = "Object" ->
                 \E i \in DOMAIN e.props : PropMayHaveSideEffects(e.props[i])

(* The literal table of as_bool: Lit::Num by FpCategory (a literal of the  *)
(* model is an integer, so only Zero is falsy), Lit::BigInt by its digits. *)
LitAsBool(e) ==
    CASE e.lit = "Num" -> e.num # 0
      [] e.lit = "BigInt" -> e.num # 0
      [] e.lit = "Bool" -> e.b
      [] e.lit = "Str" -> e.value # <<>>
      [] e.lit = "Null" -> FALSE
      [] e.lit = "Regex" -> TRUE

BV(p, v) == [p |-> p, v |-> v]

(* lp + rp == Pure answers lv.and(rv) for both operators. *)
BitwiseBothPure(op, lv, rv) == ValueAnd(lv, rv)

(* The value of `a & b` / `a | b` when an operand is not pure. *)
BitwiseImpure(op, lv, rv) == IF op = "&" THEN ValueAnd(lv, rv) ELSE ValueOr(lv, rv)

RECURSIVE AsBool(_)
AsBool(e) ==
    LET withPurity(val) ==
            IF MayHaveSideEffects(e) THEN BV(MayBeImpure, val) ELSE BV(Pure, val)
    IN
    IF IsIdentRefTo(e, "undefined") THEN BV(Pure, KnownFalse)
    ELSE CASE e.k = "Paren" -> AsBool(e.expr)
           [] e.k = "Seq" ->
                 IF e.exprs = <<>> THEN BV(Aborted, Unknown)
                 ELSE AsBool(e.exprs[Len(e.exprs)])
           [] e.k = "Assign" -> AsBool(e.right)
           [] e.k = "Unary" /\ e.op = "!" ->
                 LET a == AsBool(e.arg) IN BV(a.p, ValueNot(a.v))
           [] e.k = "Bin" /\ e.op \in {"&", "|"} ->
                 LET l == AsBool(e.left)
                     r == AsBool(e.right)
                 IN  IF l.p = Aborted \/ r.p = Aborted THEN BV(Aborted, Unknown)
                     ELSE IF PurityAdd(l.p, r.p) = Pure
                          THEN BV(Pure, BitwiseBothPure(e.op, l.v, r.v))
                          ELSE withPurity(BitwiseImpure(e.op, l.v, r.v))
           [] e.k \in {"Fn", "Class", "New", "Array", "Object"} -> withPurity(KnownTrue)
           [] e.k = "Unary" /\ e.op = "void" -> withPurity(KnownFalse)
           [] e.k = "Lit" -> BV(Pure, Known(LitAsBool(e)))
           [] OTHER -> withPurity(Unknown)

----------------------------------------------------------------------------
(* preserve_effects / add_effects (util.rs) and ignore_result (dce/mod.rs). *)

(* undefined(span): `void 0` *)
Undefined == Unary("void", Num(0))

HasAbort(exprs) == \E i \in DOMAIN exprs : exprs[i] = AbortE

RECURSIVE AddEffects(_), AddEffectsAll(_), AddEffectsProps(_), AddEffectsElems(_)

(* Folding add_effects over a Vec<Box<Expr>>, left to right. *)
AddEffectsAll(exprs) ==
    IF exprs = <<>> THEN <<>>
    ELSE AddEffects(Head(exprs)) \o AddEffectsAll(Tail(exprs))

AddEffectsProp(node) ==
    CASE node.p = "Shorthand" -> <<>>
      [] node.p = "KeyValue" ->
            (IF node.computed THEN AddEffects(node.key) ELSE <<>>)
                \o AddEffects(node.value)
      [] node.p \in {"Getter", "Setter", "Method"} ->
            IF node.computed THEN AddEffects(node.key) ELSE <<>>
      [] node.p = "Assign" -> <<AbortE>>
      [] node.p = "Spread" -> AddEffects(node.expr)

AddEffectsProps(props) ==
    IF props = <<>> THEN <<>>
    ELSE AddEffectsProp(Head(props)) \o AddEffectsProps(Tail(props))

AddEffectsElems(elems) ==
    IF elems = <<>> THEN <<>>
    ELSE (IF IsHole(Head(elems)) THEN <<>> ELSE AddEffects(Head(elems).expr))
             \o AddEffectsElems(Tail(elems))

(* The effects add_effects pushes for `new`: none for `new Date()`. *)
AddEffectsNew(e) ==
    IF e.callee.k = "Ident" /\ e.callee.sym = "Date" /\ e.args = <<>>
    THEN <<>>
    ELSE <<e>>

AddEffects(e) ==
    CASE e.k \in {"Lit", "This", "Fn", "Arrow", "Ident", "PrivateName"} -> <<>>
      [] e.k \in {"Update", "Assign", "Yield", "Await"} -> <<e>>
      [] e.k = "MetaProp" -> <<e>>
      [] e.k = "Call" -> <<e>>
      [] e.k = "New" -> AddEffectsNew(e)
      [] e.k = "Member" -> <<e>>
      [] e.k = "Cond" -> <<e>>
      [] e.k = "Unary" -> AddEffects(e.arg)
      [] e.k = "Bin" -> AddEffects(e.left) \o AddEffects(e.right)
      [] e.k = "Seq" -> AddEffectsAll(e.exprs)
      [] e.k = "Paren" -> AddEffects(e.expr)
      [] e.k = "Object" -> AddEffectsProps(e.props)
      [] e.k = "Array" -> AddEffectsElems(e.elems)
      [] e.k \in {"TaggedTpl", "Tpl", "Class"} -> <<AbortE>>
      [] e.k = "Abort" -> <<AbortE>>

PreserveEffects(val, exprs) ==
    LET effects == AddEffectsAll(exprs) IN
    IF HasAbort(effects) THEN AbortE
    ELSE IF effects = <<>> THEN val
    ELSE SeqE(Append(effects, val))

RECURSIVE IgnoreResult(_), IgnoreElems(_)

(* elems.move_flat_map(..) of the Expr::Array arm. *)
IgnoreElems(elems) ==
    IF elems = <<>> THEN <<>>
    ELSE LET v == Head(elems)
             rest == IgnoreElems(Tail(elems))
         IN  CASE v.spread -> <<v>> \o rest
               [] IsHole(v) -> rest
               [] OTHER ->
                     LET r == IgnoreResult(v.expr) IN
                     IF r = NoneE THEN rest ELSE <<Arg(r)>> \o rest

UnaryDiscardable == {"void", "typeof", "+", "-", "!", "~"}

(* The (left, right) match of the Expr::Bin arm. *)
IgnoreBin(l, r) ==
    CASE l = AbortE \/ r = AbortE -> AbortE
      [] l # NoneE /\ r # NoneE -> IgnoreResult(PreserveEffects(Undefined, <<l, r>>))
      [] l # NoneE /\ r = NoneE -> l
      [] l = NoneE /\ r # NoneE -> r
      [] OTHER -> NoneE

(* The Expr::Seq arm: reduce the last element and put it back. *)
IgnoreSeq(exprs) ==
    IF exprs = <<>> THEN NoneE
    ELSE LET last == IgnoreResult(exprs[Len(exprs)])
             front == SubSeq(exprs, 1, Len(exprs) - 1)
         IN  IF last = AbortE THEN AbortE
             ELSE SeqE(front \o (IF last = NoneE THEN <<>> ELSE <<last>>))

IgnoreResult(e) ==
    CASE e.k = "Lit" /\ e.lit \in {"Num", "Bool", "Regex"} -> NoneE
      [] e.k = "Ident" -> NoneE
      [] e.k = "Paren" -> IgnoreResult(e.expr)
      [] e.k = "Bin" /\ e.op \notin {"&&", "||"} ->
            IgnoreBin(IgnoreResult(e.left), IgnoreResult(e.right))
      [] e.k = "Unary" ->
            IF e.op \in UnaryDiscardable THEN IgnoreResult(e.arg) ELSE e
      [] e.k = "Array" ->
            LET elems == IgnoreElems(e.elems) IN
            IF \E i \in DOMAIN elems : elems[i].expr = AbortE THEN AbortE
            ELSE IF elems = <<>> THEN NoneE
            ELSE ArrayE(elems)
      [] e.k = "Object" /\ e.props = <<>> -> NoneE
      [] e.k = "Call" /\ e.callee.k # "Super" /\ IsPureCallee(e.callee) ->
            IgnoreResult(ArrayE(e.args))
      [] e.k = "TaggedTpl" /\ IsPureCallee(e.tag) ->
            IgnoreResult(PreserveEffects(Undefined, e.exprs))
      [] e.k = "Fn" -> NoneE
      [] e.k = "Seq" -> IgnoreSeq(e.exprs)
      [] e.k = "Abort" -> AbortE
      [] OTHER -> e

----------------------------------------------------------------------------
(* Statement nodes (ast::Stmt) and module items. *)

NoneS == [k |-> "None"]
AbortS == [k |-> "Abort"]

EmptyS == [k |-> "Empty"]
ExprS(e) == [k |-> "Expr", expr |-> e]
Block(stmts) == [k |-> "Block", stmts |-> stmts]
If(test, cons, alt) == [k |-> "If", test |-> test, cons |-> cons, alt |-> alt]
Catch(body) == [k |-> "Catch", body |-> body]
Try(block, handler, finalizer) ==
    [k |-> "Try", block |-> block, handler |-> handler, finalizer |-> finalizer]
Return(arg) == [k |-> "Return", arg |-> arg]
Throw(arg) == [k |-> "Throw", arg |-> arg]
Break == [k |-> "Break"]
Continue == [k |-> "Continue"]
While(test, body) == [k |-> "While", test |-> test, body |-> body]
Decl(kind, name, init) == [k |-> "Decl", decl |-> kind, name |-> name, init |-> init]
ModuleDecl == [k |-> "ModuleDecl"]

(* A statement list on which the fold panicked. *)
AbortV == <<AbortS>>
VecAborted(stmts) == \E i \in DOMAIN stmts : stmts[i] = AbortS

(* StmtLike::try_into_stmt: Err for a ModuleItem::ModuleDecl. *)
IsStmt(item) == item.k # "ModuleDecl"

(* IsEmpty for Stmt, Option<Stmt>, CatchClause, Option<BlockStmt>. *)
StmtIsEmpty(s) == s.k = "Empty" \/ (s.k = "Block" /\ s.stmts = <<>>)
OptStmtIsEmpty(s) == s.k = "None" \/ StmtIsEmpty(s)
HandlerIsEmpty(h) == h.k = "None" \/ h.body = <<>>
FinalizerIsEmpty(f) == f.k = "None" \/ f.stmts = <<>>

----------------------------------------------------------------------------
(* The Remover (dce/mod.rs). *)

(* The child expressions of a node, in source order, and the node with    *)
(* its children replaced: what the derived fold_children walks.           *)
ElemExprs(elems) == [i \in DOMAIN elems |-> elems[i].expr]
WithElemExprs(elems, ks) == [i \in DOMAIN elems |-> [elems[i] EXCEPT !.expr = ks[i]]]

PropKids(node) ==
    CASE node.p = "KeyValue" -> <<node.key, node.value>>
      [] node.p = "Spread" -> <<node.expr>>
      [] node.p \in {"Getter", "Setter", "Method"} -> <<node.key>>
      [] OTHER -> <<>>

PropWithKids(node, ks) ==
    CASE node.p = "KeyValue" -> [node EXCEPT !.key = ks[1], !.value = ks[2]]
      [] node.p = "Spread" -> [node EXCEPT !.expr = ks[1]]
      [] node.p \in {"Getter", "Setter", "Method"} -> [node EXCEPT !.key = ks[1]]
      [] OTHER -> node

Kids(e) ==
    CASE e.k = "Paren" -> <<e.expr>>
      [] e.k \in {"Seq", "Tpl"} -> e.exprs
      [] e.k \in {"Assign", "Bin"} -> <<e.left, e.right>>
      [] e.k \in {"Unary", "Update", "Await", "Yield"} -> <<e.arg>>
      [] e.k \in {"New", "Call"} -> <<e.callee>> \o ElemExprs(e.args)
      [] e.k = "Member" -> <<e.obj, e.prop>>
      [] e.k = "Cond" -> <<e.test, e.cons, e.alt>>
      [] e.k = "TaggedTpl" -> <<e.tag>> \o e.exprs
      [] e.k = "Array" -> ElemExprs(e.elems)
      [] OTHER -> <<>>

WithKids(e, ks) ==
    CASE e.k = "Paren" -> [e EXCEPT !.expr = ks[1]]
      [] e.k \in {"Seq", "Tpl"} -> [e EXCEPT !.exprs = ks]
      [] e.k \in {"Assign", "Bin"} -> [e EXCEPT !.left = ks[1], !.right = ks[2]]
      [] e.k \in {"Unary", "Update", "Await", "Yield"} -> [e EXCEPT !.arg = ks[1]]
      [] e.k \in {"New", "Call"} ->
            [e EXCEPT !.callee = ks[1], !.args = WithElemExprs(e.args, Tail(ks))]
      [] e.k = "Member" -> [e EXCEPT !.obj = ks[1], !.prop = ks[2]]
      [] e.k = "Cond" -> [e EXCEPT !.test = ks[1], !.cons = ks[2], !.alt = ks[3]]
      [] e.k = "TaggedTpl" -> [e EXCEPT !.tag = ks[1], !.exprs = Tail(ks)]
      [] e.k = "Array" -> [e EXCEPT !.elems = WithElemExprs(e.elems, ks)]
      [] OTHER -> e

RECURSIVE FlatMapIgnore(_)
(* exprs.move_flat_map(ignore_result) *)
FlatMapIgnore(exprs) ==
    IF exprs = <<>> THEN <<>>
    ELSE LET r == IgnoreResult(Head(exprs)) IN
         (IF r = NoneE THEN <<>> ELSE <<r>>) \o FlatMapIgnore(Tail(exprs))

(* Fold<SeqExpr> for Remover, after fold_children. *)
FoldSeqExpr(e) ==
    LET exprs == FlatMapIgnore(e.exprs) IN
    IF HasAbort(exprs) THEN AbortE ELSE SeqE(exprs)

(* node.fold_with(self): the Remover applied to a node of each type. The  *)
(* folds call each other through the one recursive operator Fold.         *)
RECURSIVE Fold(_, _)
FoldExpr(e) == Fold("Expr", e)
FoldExprs(exprs) == Fold("Exprs", exprs)
FoldProps(props) == Fold("Props", props)
FoldStmt(s) == Fold("Stmt", s)
FoldStmts(stmts) == Fold("Stmts", stmts)

FoldChildrenExprs(exprs) ==
    IF exprs = <<>> THEN <<>>
    ELSE <<FoldExpr(Head(exprs))>> \o FoldExprs(Tail(exprs))

FoldChildrenProps(props) ==
    IF props = <<>> THEN <<>>
    ELSE LET ks == FoldExprs(PropKids(Head(props))) IN
         <<IF HasAbort(ks) THEN SpreadProp(AbortE) ELSE PropWithKids(Head(props), ks)>>
             \o FoldProps(Tail(props))

(* The walk of an expression by the Remover: it has no Fold<Expr>, so the *)
(* derived fold_children recurs until it meets a SeqExpr, or the          *)
(* statement list of a function body.                                     *)
FoldChildrenExpr(e) ==
    CASE e.k \in {"Fn", "Arrow"} ->
            LET body == FoldStmts(e.body) IN
            IF VecAborted(body) THEN AbortE ELSE [e EXCEPT !.body = body]
      [] e.k = "Object" ->
            LET props == FoldProps(e.props) IN
            IF \E i \in DOMAIN props : props[i] = SpreadProp(AbortE) THEN AbortE
            ELSE [e EXCEPT !.props = props]
      [] OTHER ->
            LET ks == FoldExprs(Kids(e)) IN
            IF HasAbort(ks) THEN AbortE
            ELSE IF e.k = "Seq" THEN FoldSeqExpr(WithKids(e, ks))
            ELSE WithKids(e, ks)

(* Folding an Option<Box<Stmt>>. *)
FoldOpt(s) == IF s.k = "None" THEN s ELSE FoldStmt(s)

(* stmt.fold_children(self) *)
FoldStmtChildren(s) ==
    CASE s.k \in {"Expr"} ->
            LET e == FoldExpr(s.expr) IN
            IF e = AbortE THEN AbortS ELSE ExprS(e)
      [] s.k \in {"Return", "Throw"} ->
            LET e == FoldExpr(s.arg) IN
            IF e = AbortE THEN AbortS ELSE [s EXCEPT !.arg = e]
      [] s.k = "Decl" ->
            LET e == FoldExpr(s.init) IN
            IF e = AbortE THEN AbortS ELSE [s EXCEPT !.init = e]
      [] s.k = "Block" ->
            LET stmts == FoldStmts(s.stmts) IN
            IF VecAborted(stmts) THEN AbortS ELSE Block(stmts)
      [] s.k = "If" ->
            LET test == FoldExpr(s.test)
                cons == FoldStmt(s.cons)
                alt == FoldOpt(s.alt)
            IN  IF test = AbortE \/ cons = AbortS \/ alt = AbortS THEN AbortS
                ELSE If(test, cons, alt)
      [] s.k = "While" ->
            LET test == FoldExpr(s.test)
                body == FoldStmt(s.body)
            IN  IF test = AbortE \/ body = AbortS THEN AbortS
                ELSE While(test, body)
      [] s.k = "Try" ->
            LET block == FoldStmts(s.block)
                handler == IF s.handler.k = "None" THEN s.handler
                           ELSE Catch(FoldStmts(s.handler.body))
                finalizer == IF s.finalizer.k = "None" THEN s.finalizer
                             ELSE Block(FoldStmts(s.finalizer.stmts))
            IN  IF \/ VecAborted(block)
                   \/ handler.k # "None" /\ VecAborted(handler.body)
                   \/ finalizer.k # "None" /\ VecAborted(finalizer.stmts)
                THEN AbortS
                ELSE Try(block, handler, finalizer)
      [] OTHER -> s

(* The Stmt::Block arm of Fold<Stmt>. *)
FoldBlockKeepsEmpty(s) ==
    IF Len(s.stmts) = 1 THEN s.stmts[1]
    ELSE s

FoldBlock(s) ==
    IF s.stmts = <<>> THEN EmptyS
    ELSE IF Len(s.stmts) = 1 THEN s.stmts[1]
    ELSE s

FoldTryIgnoresCatch(s) ==
    IF s.block = <<>>
    THEN (IF s.finalizer.k = "None" THEN EmptyS ELSE s.finalizer)
    ELSE IF FinalizerIsEmpty(s.finalizer)
         THEN Block(s.block)
         ELSE s

(* The Stmt::Try arm of Fold<Stmt>. *)
FoldTry(s) ==
    IF s.block = <<>>
    THEN (IF s.finalizer.k = "None" THEN EmptyS ELSE s.finalizer)
    ELSE IF HandlerIsEmpty(s.handler) /\ FinalizerIsEmpty(s.finalizer)
         THEN Block(s.block)
         ELSE s

(* The match of Fold<Stmt> on the statement whose children are folded. *)
FoldStmtMatch(s) ==
    CASE s.k = "If" /\ s.cons.k = "Empty" /\ s.alt.k = "None" ->
            LET e == IgnoreResult(s.test) IN
            IF e = AbortE THEN AbortS
            ELSE IF e = NoneE THEN EmptyS ELSE ExprS(e)
      [] s.k = "Expr" ->
            LET e == IgnoreResult(s.expr) IN
            IF e = AbortE THEN AbortS
            ELSE IF e = NoneE THEN EmptyS ELSE ExprS(e)
      [] s.k = "Block" -> FoldBlock(s)
      [] s.k = "Try" -> FoldTry(s)
      [] s.k = "If" /\ ~(s.cons.k = "Empty" /\ s.alt.k = "None") ->
            IF OptStmtIsEmpty(s.alt) THEN If(s.test, s.cons, NoneS) ELSE s
      [] OTHER -> s

(* Fold<Stmt> for Remover. *)
RemoverFoldStmt(s) ==
    LET folded == FoldStmtChildren(s) IN
    IF folded = AbortS THEN AbortS ELSE FoldStmtMatch(folded)

Transfers == {"Throw", "Return", "Continue", "Break"}

(* The Stmt::If arm of the statement-list fold: the conditional fold. *)
FoldIfInList(s) ==
    LET b == AsBool(s.test) IN
    IF b.p = Aborted THEN AbortS
    ELSE IF b.p = Pure /\ b.v = KnownTrue THEN s.cons
    ELSE IF b.p = Pure /\ b.v = KnownFalse
         THEN (IF s.alt.k = "None" THEN EmptyS ELSE s.alt)
    ELSE s

(* A loop that returns after `return` only. *)
EndsListAtReturn(item) == item.k = "Return"

(* Whether the loop of the statement-list fold returns after this item. *)
EndsList(item) == item.k \in Transfers

(* What one folded item adds to buf. *)
ListItem(item) ==
    CASE item.k = "Empty" -> <<>>
      [] item.k = "If" -> <<FoldIfInList(item)>>
      [] OTHER -> <<item>>

(* Fold<Vec<T>> for Remover. *)
RemoverFoldVec(stmts) ==
    IF stmts = <<>> THEN <<>>
    ELSE LET item == FoldStmt(Head(stmts)) IN
         IF item = AbortS THEN AbortV
         ELSE IF EndsList(item) THEN <<item>>
         ELSE LET pushed == ListItem(item)
                  rest == FoldStmts(Tail(stmts))
              IN  IF VecAborted(pushed) \/ VecAborted(rest) THEN AbortV
                  ELSE pushed \o rest

Fold(type, node) ==
    CASE type = "Expr" -> FoldChildrenExpr(node)
      [] type = "Exprs" -> FoldChildrenExprs(node)
      [] type = "Props" -> FoldChildrenProps(node)
      [] type = "Stmt" -> RemoverFoldStmt(node)
      [] type = "Stmts" -> RemoverFoldVec(node)

----------------------------------------------------------------------------
(* num_from_str (util.rs).  A &str is a sequence of one-character strings  *)
(* over Alphabet; a Value<f64> is a record.                                *)

KnownNum(n) == [v |-> "Known", num |-> n]
KnownNaN == [v |-> "NaN"]
UnknownNum == [v |-> "Unknown"]
AbortNum == [v |-> "Abort"]
NotCalled == [v |-> "NotCalled"]

Digits == {"0", "1", "2", "3", "4", "5", "6", "7", "8", "9"}
HexLetters == {"a", "b", "c", "d", "e", "f", "A", "B", "C", "D", "E", "F"}
Whitespace == {" "}
(* The character U+000B, which num_from_str looks for before trimming. *)
VerticalTab == "VT"

DigitVal(c) ==
    CASE c = "0" -> 0 [] c = "1" -> 1 [] c = "2" -> 2 [] c = "3" -> 3
      [] c = "4" -> 4 [] c = "5" -> 5 [] c = "6" -> 6 [] c = "7" -> 7
      [] c = "8" -> 8 [] c = "9" -> 9
      [] c \in {"a", "A"} -> 10 [] c \in {"b", "B"} -> 11
      [] c \in {"c", "C"} -> 12 [] c \in {"d", "D"} -> 13
      [] c \in {"e", "E"} -> 14 [] c \in {"f", "F"} -> 15

RECURSIVE TrimStart(_), TrimEnd(_), DecimalVal(_)

TrimStart(s) ==
    IF s # <<>> /\ Head(s) \in Whitespace THEN TrimStart(Tail(s)) ELSE s

TrimEnd(s) ==
    IF s # <<>> /\ s[Len(s)] \in Whitespace
    THEN TrimEnd(SubSeq(s, 1, Len(s) - 1))
    ELSE s

(* str::trim *)
Trim(s) == TrimEnd(TrimStart(s))

(* str::starts_with *)
StartsWith(s, prefix) ==
    Len(s) >= Len(prefix) /\ SubSeq(s, 1, Len(prefix)) = prefix

DecimalVal(ds) ==
    IF ds = <<>> THEN 0
    ELSE 10 * DecimalVal(SubSeq(ds, 1, Len(ds) - 1)) + DigitVal(ds[Len(ds)])

(* str::parse::<f64> on a string over Alphabet, which has no '.', no 'e'   *)
(* and no 'n' (so no exponent, "inf" or "nan"): an optional sign and one   *)
(* or more decimal digits is Ok, anything else is Err (the value NaN       *)
(* here, as both callers map Err to NAN).  The words of InfinityWords are  *)
(* Err here too; NumFromStrOutcomes adds what a newer std makes of them.   *)
ParseF64(s) ==
    LET signed == s # <<>> /\ s[1] \in {"+", "-"}
        ds == IF signed THEN Tail(s) ELSE s
    IN  IF ds # <<>> /\ \A i \in DOMAIN ds : ds[i] \in Digits
        THEN KnownNum(IF signed /\ s[1] = "-" THEN -DecimalVal(ds) ELSE DecimalVal(ds))
        ELSE KnownNaN

(* The arm of num_from_str for a string that starts with 0x / 0X:          *)
(* s[2..4].parse(), which panics when s is shorter than four bytes.        *)
HexArm(s) ==
    IF Len(s) < 4 THEN AbortNum ELSE ParseF64(SubSeq(s, 3, 4))

NumFromStr(raw) ==
    IF \E i \in DOMAIN raw : raw[i] = VerticalTab THEN UnknownNum
    ELSE LET s == Trim(raw) IN
         IF s = <<>> THEN KnownNum(0)
         ELSE IF StartsWith(s, <<"0", "x">>) \/ StartsWith(s, <<"0", "X">>)
              THEN HexArm(s)
         ELSE IF /\ s[1] \in {"-", "+"}
                 /\ \/ StartsWith(Tail(s), <<"0", "x">>)
                    \/ StartsWith(Tail(s), <<"0", "X">>)
              THEN UnknownNum
         ELSE IF s \in { <<"i", "n", "f", "i", "n", "i", "t", "y">>,
                         <<"+", "i", "n", "f", "i", "n", "i", "t", "y">>,
                         <<"-", "i", "n", "f", "i", "n", "i", "t", "y">> }
              THEN UnknownNum
         ELSE ParseF64(s)

(* The word infinity as written in three casings. *)
InfinityWords ==
    { <<"i", "n", "f", "i", "n", "i", "t", "y">>,
      <<"I", "n", "f", "i", "n", "i", "t", "y">>,
      <<"I", "N", "F", "I", "N", "I", "T", "Y">> }

(* Known(INFINITY) / Known(-INFINITY) *)
KnownInf(neg) == [v |-> "Inf", neg |-> neg]

(* What num_from_str returns under the std versions the crate builds      *)
(* with: str::parse::<f64> gives Err for a word of InfinityWords before   *)
(* Rust 1.55 and Ok(inf) since (the match on "infinity" is on the         *)
(* lowercase spelling only, so the other casings reach the parse).        *)
NumFromStrOutcomes(raw) ==
    LET s == Trim(raw)
        signed == s # <<>> /\ s[1] \in {"+", "-"}
        word == IF signed THEN Tail(s) ELSE s
    IN  IF NumFromStr(raw) = KnownNaN /\ word \in InfinityWords
        THEN {KnownNaN, KnownInf(signed /\ s[1] = "-")}
        ELSE {NumFromStr(raw)}

----------------------------------------------------------------------------
(* as_string and as_number of an expression (util.rs). A string is a      *)
(* sequence of characters; Value::Unknown is UnknownNum and a panic is    *)
(* AbortNum for both functions.                                           *)

KnownStr(s) == [v |-> "Known", s |-> s]

(* format!("{}", n) of a numeric literal: the decimal digits of a         *)
(* non-negative integer.                                                  *)
RECURSIVE NumToString(_)
NumToString(n) ==
    LET digit(d) == <<"0", "1", "2", "3", "4", "5", "6", "7", "8", "9">>[d + 1]
    IN  IF n < 10 THEN <<digit(n)>>
        ELSE NumToString(n \div 10) \o <<digit(n % 10)>>

RECURSIVE AsString(_)
AsString(e) ==
    CASE e.k = "Lit" ->
            CASE e.lit = "Str" -> KnownStr(e.value)
              [] e.lit = "Num" -> KnownStr(NumToString(e.num))
              [] e.lit = "Bool" ->
                    IF e.b THEN KnownStr(<<"t", "r", "u", "e">>)
                    ELSE KnownStr(<<"f", "a", "l", "s", "e">>)
              [] e.lit = "Null" -> KnownStr(<<"n", "u", "l", "l">>)
              [] OTHER -> UnknownNum
      [] e.k = "Tpl" -> AbortNum
      [] e.k = "Ident" ->
            CASE e.sym = "undefined" ->
                    KnownStr(<<"u", "n", "d", "e", "f", "i", "n", "e", "d">>)
              [] e.sym = "Infinity" ->
                    KnownStr(<<"I", "n", "f", "i", "n", "i", "t", "y">>)
              [] e.sym = "NaN" -> KnownStr(<<"N", "a", "N">>)
              [] OTHER -> UnknownNum
      [] e.k = "Unary" /\ e.op = "void" ->
            KnownStr(<<"u", "n", "d", "e", "f", "i", "n", "e", "d">>)
      [] e.k = "Unary" /\ e.op = "!" ->
            LET b == AsBool(e.arg) IN
            \* arg.as_pure_bool()?
            CASE b.p = Aborted -> AbortNum
              [] b.p = Pure /\ b.v = KnownTrue ->
                    KnownStr(<<"f", "a", "l", "s", "e">>)
              [] b.p = Pure /\ b.v = KnownFalse ->
                    KnownStr(<<"t", "r", "u", "e">>)
              [] OTHER -> UnknownNum
      [] e.k = "Array" ->
            LET elems == e.elems
                \* the string of one element; `..` ignores the spread flag
                one(el) ==
                    IF IsHole(el) THEN KnownStr(<<>>)
                    ELSE IF (el.expr.k = "Lit" /\ el.expr.lit = "Null")
                            \/ IsIdentRefTo(el.expr, "undefined")
                         THEN KnownStr(<<>>)
                    ELSE AsString(el.expr)
                strs == [i \in DOMAIN elems |-> one(elems[i])]
                stops == {i \in DOMAIN elems : strs[i].v # "Known"}
                \* buf after the first i elements: the element, then a
                \* comma unless it is the first one
                buf[i \in 0..Len(elems)] ==
                    IF i = 0 THEN <<>>
                    ELSE buf[i - 1] \o strs[i].s \o (IF i = 1 THEN <<>> ELSE <<",">>)
            IN  IF stops # {}
                THEN strs[CHOOSE i \in stops : \A j \in stops : i <= j]
                ELSE KnownStr(buf[Len(elems)])
      [] e.k = "Object" ->
            KnownStr(<<"[", "o", "b", "j", "e", "c", "t", " ",
                       "O", "b", "j", "e", "c", "t", "]">>)
      [] OTHER -> UnknownNum

(* The set of results of as_number: more than one where num_from_str      *)
(* depends on the std version.                                            *)
AsNumber(e) ==
    CASE e.k = "Lit" ->
            CASE e.lit = "Bool" -> {KnownNum(IF e.b THEN 1 ELSE 0)}
              [] e.lit = "Null" -> {KnownNum(0)}
              [] e.lit = "Num" -> {KnownNum(e.num)}
              [] e.lit = "Str" -> NumFromStrOutcomes(e.value)
              [] OTHER -> {UnknownNum}
      [] e.k = "Ident" ->
            CASE e.sym \in {"undefined", "NaN"} -> {KnownNaN}
              [] e.sym = "Infinity" -> {KnownInf(FALSE)}
              [] OTHER -> {UnknownNum}
      [] e.k = "Unary" /\ e.op = "-" /\ IsIdentRefTo(e.arg, "Infinity") ->
            {KnownInf(TRUE)}
      [] e.k = "Unary" /\ e.op = "!" ->
            LET b == AsBool(e.arg) IN
            CASE b.p = Aborted -> {AbortNum}
              [] b.p = Pure /\ b.v = KnownTrue -> {KnownNum(0)}
              [] b.p = Pure /\ b.v = KnownFalse -> {KnownNum(1)}
              [] OTHER -> {UnknownNum}
      [] e.k = "Unary" /\ e.op = "void" ->
            IF MayHaveSideEffects(e.arg) THEN {UnknownNum} ELSE {KnownNaN}
      [] e.k \in {"Tpl", "Object", "Array"} ->
            \* num_from_str(&*self.as_string()?)
            LET s == AsString(e) IN
            IF s.v = "Known" THEN NumFromStrOutcomes(s.s) ELSE {s}
      [] OTHER -> {UnknownNum}

----------------------------------------------------------------------------
(* to_int32 (util.rs). An integer-valued f64 is a sign and a magnitude     *)
(* hi * 2^16 + lo, lo in 0 .. 2^16 - 1, so that values beyond 2^32 are     *)
(* written without leaving the integers of the model.                      *)

NaN == [f |-> "NaN"]
Infinite(neg) == [f |-> "Inf", neg |-> neg]
Integral(neg, hi, lo) == [f |-> "Int", neg |-> neg, hi |-> hi, lo |-> lo]

(* The i32 with the value of x, for an x within the range of i32. *)
IntVal(x) == IF x.neg THEN (0 - x.hi) * 65536 - x.lo ELSE x.hi * 65536 + x.lo

(* x is within i32::MIN ..= i32::MAX. *)
FitsI32(x) ==
    /\ x.f = "Int"
    /\ \/ x.hi < 32768
       \/ x.neg /\ x.hi = 32768 /\ x.lo = 0

(* `d as i32`: the value when it fits; out of range and for NaN the cast   *)
(* saturates (0 for NaN) since Rust 1.45 and was undefined before, where   *)
(* the x86 conversion returns i32::MIN.                                    *)
CastI32(x) ==
    IF FitsI32(x) THEN {IntVal(x)}
    ELSE {0, 2147483647, -2147483647 - 1}

Low32IgnoresSign(x) ==
    LET uh == x.hi % 65536
    IN  (IF uh >= 32768 THEN uh - 65536 ELSE uh) * 65536 + x.lo

(* `(d % TWO32) as i64 as i32` for an integral d: the low 32 bits of the   *)
(* truncated remainder, read as a two's complement i32.                    *)
Low32(x) ==
    LET mh == x.hi % 65536          \* d % TWO32 keeps the sign of d
        zero == mh = 0 /\ x.lo = 0
        uh == IF ~x.neg \/ zero THEN mh
              ELSE IF x.lo = 0 THEN 65536 - mh ELSE 65535 - mh
        ul == IF ~x.neg \/ x.lo = 0 THEN x.lo ELSE 65536 - x.lo
    IN  (IF uh >= 32768 THEN uh - 65536 ELSE uh) * 65536 + ul

(* The set of results of to_int32(d), one for each outcome of the cast. *)
ToInt32(x) ==
    { IF FitsI32(x) /\ IntVal(x) = id THEN id      \* id as f64 == d
      ELSE IF x.f \in {"NaN", "Inf"} THEN 0
      ELSE Low32(x) : id \in CastI32(x) }

----------------------------------------------------------------------------
(* calc_literal_cost and the LiteralVisitor (util.rs). The visitor state   *)
(* is the record v of is_lit and cost; a visit returns the state after it. *)

RECURSIVE LiteralVisit(_, _, _, _)
LiteralVisit(type, node, v, allow) ==
    CASE type = "Expr" ->
            IF ~v.is_lit THEN v
            ELSE CASE node.k = "Ident" \/ (node.k = "Lit" /\ node.lit = "Regex") ->
                        [v EXCEPT !.is_lit = FALSE]
                   [] node.k = "Tpl" /\ node.exprs # <<>> -> [v EXCEPT !.is_lit = FALSE]
                   \* e.visit_children(self)
                   [] node.k = "Lit" -> v
                   [] node.k = "Tpl" -> v
                   [] node.k = "Paren" -> LiteralVisit("Expr", node.expr, v, allow)
                   [] node.k = "Array" ->
                        IF ~v.is_lit THEN v
                        ELSE LET counted == [v EXCEPT !.cost = @ + 2 + Len(node.elems)]
                                 visited == LiteralVisit("Elems", node.elems, counted, allow)
                             IN  IF ~allow /\ \E i \in DOMAIN node.elems : IsHole(node.elems[i])
                                 THEN [visited EXCEPT !.is_lit = FALSE]
                                 ELSE visited
                   [] node.k = "Object" -> LiteralVisit("Props", node.props, v, allow)
                   \* not_lit!(..)
                   [] OTHER -> [v EXCEPT !.is_lit = FALSE]
      [] type = "Elems" ->
            \* Option<ExprOrSpread>: the expression of each element that is
            \* not a hole, spread or not
            IF node = <<>> THEN v
            ELSE LiteralVisit("Elems", Tail(node),
                              IF IsHole(Head(node)) THEN v
                              ELSE LiteralVisit("Expr", Head(node).expr, v, allow),
                              allow)
      [] type = "Props" ->
            IF node = <<>> THEN v
            ELSE LiteralVisit("Props", Tail(node),
                              LiteralVisit("Prop", Head(node), v, allow), allow)
      [] type = "Prop" ->
            CASE node.p = "Spread" -> [v EXCEPT !.is_lit = FALSE]
              [] ~v.is_lit -> v
              [] node.p = "KeyValue" ->
                    LET key == LiteralVisit("PropName", node, v, allow)
                        value == LiteralVisit("Expr", node.value, key, allow)
                    IN  [value EXCEPT !.cost = @ + 1]
              [] node.p \in {"Getter", "Setter", "Method"} ->
                    [LiteralVisit("PropName", node, v, allow) EXCEPT !.is_lit = FALSE]
              [] OTHER -> [v EXCEPT !.is_lit = FALSE]
      [] type = "PropName" ->
            IF ~v.is_lit THEN v
            ELSE CASE node.computed ->
                        [LiteralVisit("Expr", node.key, v, allow) EXCEPT !.is_lit = FALSE]
                   [] node.key.k = "Ident" -> [v EXCEPT !.cost = @ + 2 + Len(node.key.sym)]
                   [] node.key.lit = "Str" -> [v EXCEPT !.cost = @ + 2 + Len(node.key.value)]
                   [] node.key.lit = "Num" -> [v EXCEPT !.cost = @ + 5]

CalcLiteralCost(e, allow_non_json_value) ==
    LiteralVisit("Expr", e, [is_lit |-> TRUE, cost |-> 0], allow_non_json_value)

----------------------------------------------------------------------------
(* Remover.scope.vars: the names the statement-list fold registers, one   *)
(* per `var` declaration that is an item of a list it walks.              *)

RECURSIVE Vars(_, _)
Vars(type, node) ==
    CASE type = "Exprs" ->
            IF node = <<>> THEN {}
            ELSE Vars("Expr", Head(node)) \cup Vars("Exprs", Tail(node))
      [] type = "Expr" ->
            IF node.k \in {"Fn", "Arrow"} THEN Vars("Stmts", node.body)
            ELSE IF node.k = "Object"
                 THEN UNION {Vars("Exprs", PropKids(node.props[i])) : i \in DOMAIN node.props}
                 ELSE Vars("Exprs", Kids(node))
      [] type = "Opt" ->
            IF node.k = "None" THEN {}
            ELSE IF node.k = "Catch" THEN Vars("Stmts", node.body)
            ELSE Vars("Stmt", node)
      [] type = "Stmt" ->
            CASE node.k = "Expr" -> Vars("Expr", node.expr)
              [] node.k \in {"Return", "Throw"} -> Vars("Expr", node.arg)
              [] node.k = "Decl" -> Vars("Expr", node.init)
              [] node.k = "Block" -> Vars("Stmts", node.stmts)
              [] node.k = "If" ->
                    Vars("Expr", node.test) \cup Vars("Stmt", node.cons)
                        \cup Vars("Opt", node.alt)
              [] node.k = "While" -> Vars("Expr", node.test) \cup Vars("Stmt", node.body)
              [] node.k = "Try" ->
                    Vars("Stmts", node.block) \cup Vars("Opt", node.handler)
                        \cup Vars("Opt", node.finalizer)
              [] OTHER -> {}
      [] type = "Stmts" ->
            IF node = <<>> THEN {}
            ELSE LET item == FoldStmt(Head(node)) IN
                 Vars("Stmt", Head(node))
                     \cup (IF item.k = "Decl" /\ item.decl = "Var" THEN {item.name} ELSE {})
                     \cup (IF item = AbortS \/ EndsList(item) THEN {}
                           ELSE Vars("Stmts", Tail(node)))

----------------------------------------------------------------------------
(* The programs of the model. *)

RECURSIVE Size(_), SizeList(_)

(* Statement nodes of a list / of a statement. *)
SizeList(stmts) ==
    IF stmts = <<>> THEN 0 ELSE Size(Head(stmts)) + SizeList(Tail(stmts))

Size(s) ==
    CASE s.k = "Block" -> 1 + SizeList(s.stmts)
      [] s.k = "If" -> 1 + Size(s.cons) + (IF s.alt.k = "None" THEN 0 ELSE Size(s.alt))
      [] s.k = "While" -> 1 + Size(s.body)
      [] s.k = "Try" ->
            1 + SizeList(s.block)
              + (IF s.handler.k = "None" THEN 0 ELSE SizeList(s.handler.body))
              + (IF s.finalizer.k = "None" THEN 0 ELSE SizeList(s.finalizer.stmts))
      [] OTHER -> 1

CallFoo == Call(Ident("foo"), <<>>)

(* `x = 1` *)
AssignX == Assign("=", Ident("x"), Num(1))

BaseStmts ==
    { EmptyS, ExprS(Num(1)), ExprS(CallFoo),
      Return(NoneE), Throw(Ident("x")), Break, Continue,
      Decl("Var", "v", Num(1)), Decl("Let", "l", Num(1)), Decl("Fn", "f", NoneE),
      ModuleDecl }

Tests == { Ident("x"), Bool(TRUE), Bool(FALSE), AssignX, CallFoo }

(* let / const / class / function declarations. *)
IsLexicalDecl(s) == s.k = "Decl" /\ s.decl \in {"Let", "Fn"}

(* What the grammar allows as the body of an if or of a loop. *)
IsBody(s) == IsStmt(s) /\ ~IsLexicalDecl(s)

LastN(stmts, n) == SubSeq(stmts, Len(stmts) - n + 1, Len(stmts))
ButLastN(stmts, n) == SubSeq(stmts, 1, Len(stmts) - n)
AllStmts(stmts) == \A i \in DOMAIN stmts : IsStmt(stmts[i])
AllBodies(stmts) == \A i \in DOMAIN stmts : IsBody(stmts[i])

Idle ==
    /\ expr = NoneE /\ called = "none" /\ res = NoneE /\ bres = BV(Pure, Unknown)
    /\ str = <<>> /\ nres = NotCalled /\ sres = NotCalled
    /\ modules = <<>> /\ current = {} /\ threads = <<>> /\ parsed = <<>>
    /\ returned = <<>> /\ ncalls = 0
    /\ ty = NotCalled /\ tres = NotCalled
    /\ lres = NotCalled
    /\ f64 = NaN /\ ires = <<>>
    /\ inline_all_strings = FALSE

Init ==
    /\ prog = <<>> /\ out = <<>> /\ out2 = <<>> /\ passes = 0 /\ scope = {}
    /\ Idle

Building == passes = 0 /\ SizeList(prog) < MaxNodes

SetProg(p) ==
    /\ prog' = p
    /\ UNCHANGED <<modules, current, threads, parsed, returned, ncalls, ty, tres, lres, f64, ires, inline_all_strings, sres, out, out2, passes, scope, expr, called, res, bres, str, nres>>

AddStmt(s) == Building /\ SetProg(Append(prog, s))

(* The last n items of the list become the body of a block. *)
WrapBlock(n) ==
    /\ Building /\ Len(prog) >= n /\ AllStmts(LastN(prog, n))
    /\ SetProg(Append(ButLastN(prog, n), Block(LastN(prog, n))))

(* The last item becomes the consequent of an if, or the last two its     *)
(* consequent and alternate.                                               *)
WrapIf(test, withAlt) ==
    LET n == IF withAlt THEN 2 ELSE 1 IN
    /\ Building /\ Len(prog) >= n /\ AllBodies(LastN(prog, n))
    /\ SetProg(Append(ButLastN(prog, n),
                      If(test, LastN(prog, n)[1],
                         IF withAlt THEN LastN(prog, n)[2] ELSE NoneS)))

WrapWhile(test) ==
    /\ Building /\ Len(prog) >= 1 /\ AllBodies(LastN(prog, 1))
    /\ SetProg(Append(ButLastN(prog, 1), While(test, prog[Len(prog)])))

ClauseShapes == {"none", "empty", "one"}
ClauseLen(shape) == IF shape = "one" THEN 1 ELSE 0

(* The last items become the try block, the catch body and the finally    *)
(* block of a try statement.                                               *)
WrapTry(nb, h, f) ==
    LET n == nb + ClauseLen(h) + ClauseLen(f)
        last == LastN(prog, n)
        hbody == SubSeq(last, nb + 1, nb + ClauseLen(h))
        fbody == SubSeq(last, nb + ClauseLen(h) + 1, n)
    IN  /\ Building /\ Len(prog) >= n /\ AllStmts(last)
        /\ h # "none" \/ f # "none"
        /\ SetProg(Append(ButLastN(prog, n),
                          Try(SubSeq(last, 1, nb),
                              IF h = "none" THEN NoneS ELSE Catch(hbody),
                              IF f = "none" THEN NoneS ELSE Block(fbody))))

(* dce() folds the program. *)
RunDce ==
    /\ passes = 0
    /\ out' = FoldStmts(prog)
    /\ scope' = Vars("Stmts", prog)
    /\ passes' = 1
    /\ UNCHANGED <<modules, current, threads, parsed, returned, ncalls, ty, tres, lres, f64, ires, inline_all_strings, sres, prog, out2, expr, called, res, bres, str, nres>>

(* dce() folds its own output. *)
RunDceAgain ==
    /\ passes = 1 /\ ~VecAborted(out)
    /\ out2' = FoldStmts(out)
    /\ passes' = 2
    /\ UNCHANGED <<modules, current, threads, parsed, returned, ncalls, ty, tres, lres, f64, ires, inline_all_strings, sres, prog, out, scope, expr, called, res, bres, str, nres>>

Next ==
    \/ \E s \in BaseStmts : AddStmt(s)
    \/ \E n \in 0..2 : WrapBlock(n)
    \/ \E test \in Tests, withAlt \in BOOLEAN : WrapIf(test, withAlt)
    \/ \E test \in Tests : WrapWhile(test)
    \/ \E nb \in 0..1, h \in ClauseShapes, f \in ClauseShapes : WrapTry(nb, h, f)
    \/ RunDce
    \/ RunDceAgain

Spec == Init /\ [][Next]_vars

----------------------------------------------------------------------------
(* The expressions of the model: as_bool, ignore_result and                *)
(* preserve_effects applied to an expression built from ExprAtoms.         *)

RECURSIVE Depth(_), DepthOfAll(_)

(* The nesting depth of an expression / the largest of a list. *)
DepthOfAll(exprs) ==
    IF exprs = <<>> THEN 0
    ELSE LET d == Depth(Head(exprs))
             r == DepthOfAll(Tail(exprs))
         IN  IF d > r THEN d ELSE r

Depth(e) ==
    LET ks == IF e.k = "Object"
              THEN [i \in DOMAIN e.props |-> SeqE(PropKids(e.props[i]))]
              ELSE Kids(e)
    IN  IF ks = <<>> THEN 0 ELSE 1 + DepthOfAll(ks)

NewDate == New(Ident("Date"), <<>>)

ExprAtoms ==
    {Num(n) : n \in 0..MaxNum}
        \cup { Bool(TRUE), Bool(FALSE), Null, Regex, Str(<<>>), Str(<<"a">>),
               Ident("x"), Ident("undefined"), Ident("Date"), This, Class, Fn(<<>>),
               Tpl(<<>>) }

(* The operator and second operand of a binary expression, and the other *)
(* element of a sequence expression.                                      *)
BinOthers ==
    ({"&", "|"} \X {Num(n) : n \in 0..MaxNum})
        \cup ({"+", "&&"} \X {Num(1), Tpl(<<>>), NewDate, CallFoo})
SeqOthers == {Num(1), CallFoo}

Callees == {Ident("foo"), Ident("Date"), Member(Ident("Math"), Ident("abs"))}

InitExpr ==
    /\ prog = <<>> /\ out = <<>> /\ out2 = <<>> /\ passes = 0 /\ scope = {}
    /\ str = <<>> /\ nres = NotCalled /\ sres = NotCalled
    /\ modules = <<>> /\ current = {} /\ threads = <<>> /\ parsed = <<>>
    /\ returned = <<>> /\ ncalls = 0
    /\ ty = NotCalled /\ tres = NotCalled
    /\ lres = NotCalled
    /\ f64 = NaN /\ ires = <<>>
    /\ inline_all_strings = FALSE
    /\ expr \in ExprAtoms
    /\ called = "none" /\ res = NoneE /\ bres = BV(Pure, Unknown)

BuildingExpr == called = "none" /\ Depth(expr) < MaxDepth

SetExpr(e) ==
    /\ BuildingExpr
    /\ expr' = e
    /\ UNCHANGED <<modules, current, threads, parsed, returned, ncalls, ty, tres, lres, f64, ires, inline_all_strings, sres, prog, out, out2, passes, scope, called, res, bres, str, nres>>

(* ignore_result(expr) *)
CallIgnoreResult ==
    /\ called = "none"
    /\ called' = "ignore_result"
    /\ res' = IgnoreResult(expr)
    /\ UNCHANGED <<modules, current, threads, parsed, returned, ncalls, ty, tres, lres, f64, ires, inline_all_strings, sres, prog, out, out2, passes, scope, expr, bres, str, nres>>

(* preserve_effects(span, undefined(span), vec![expr]) *)
CallPreserveEffects ==
    /\ called = "none"
    /\ called' = "preserve_effects"
    /\ res' = PreserveEffects(Undefined, <<expr>>)
    /\ UNCHANGED <<modules, current, threads, parsed, returned, ncalls, ty, tres, lres, f64, ires, inline_all_strings, sres, prog, out, out2, passes, scope, expr, bres, str, nres>>

(* expr.as_bool() *)
CallAsBool ==
    /\ called = "none"
    /\ called' = "as_bool"
    /\ bres' = AsBool(expr)
    /\ UNCHANGED <<modules, current, threads, parsed, returned, ncalls, ty, tres, lres, f64, ires, inline_all_strings, sres, prog, out, out2, passes, scope, expr, res, str, nres>>

(* expr.as_string() *)
CallAsString ==
    /\ called = "none"
    /\ called' = "as_string"
    /\ sres' = AsString(expr)
    /\ UNCHANGED <<modules, current, threads, parsed, returned, ncalls, ty, tres, lres, f64, ires, inline_all_strings, prog, out, out2, passes, scope, expr, res, bres, str, nres>>

(* expr.as_number() *)
CallAsNumberExpr ==
    /\ called = "none"
    /\ called' = "as_number"
    /\ nres' \in AsNumber(expr)
    /\ UNCHANGED <<modules, current, threads, parsed, returned, ncalls, ty, tres, lres, f64, ires, inline_all_strings, prog, out, out2, passes, scope, expr, res, bres, str, sres>>

(* expr.fold_with(&mut Remover::default()) *)
CallFoldExpr ==
    /\ called = "none"
    /\ called' = "fold"
    /\ res' = FoldExpr(expr)
    /\ UNCHANGED <<modules, current, threads, parsed, returned, ncalls, ty, tres, lres, f64, ires, inline_all_strings, sres, prog, out, out2, passes, scope, expr, bres, str, nres>>

(* calc_literal_cost(&expr, true) *)
CallCalcLiteralCost ==
    /\ called = "none"
    /\ called' = "calc_literal_cost"
    /\ lres' = CalcLiteralCost(expr, TRUE)
    /\ UNCHANGED <<modules, current, threads, parsed, returned, ncalls, ty, tres, f64, ires, sres, inline_all_strings, prog, out, out2, passes, scope,
                   expr, res, bres, str, nres>>

NextExpr ==
    \/ SetExpr(Paren(expr))
    \/ \E op \in {"!", "void", "-", "delete"} : SetExpr(Unary(op, expr))
    \/ expr.k \in {"Ident", "Member"} /\ SetExpr(Update("++", expr))
    \/ \E b \in BinOthers : SetExpr(Bin(b[1], expr, b[2]))
    \/ \E other \in SeqOthers :
           \/ SetExpr(SeqE(<<expr, other>>))
           \/ SetExpr(SeqE(<<other, expr>>))
    \/ SetExpr(Assign("=", Ident("x"), expr))
    \/ \E elems \in {<<Arg(expr)>>, <<Spread(expr)>>, <<Hole, Arg(expr)>>,
                       <<Arg(Str(<<"a">>)), Arg(expr)>>} :
           SetExpr(ArrayE(elems))
    \/ \E callee \in Callees : SetExpr(Call(callee, <<Arg(expr)>>))
    \/ SetExpr(Call(expr, <<>>))
    \/ SetExpr(New(expr, <<>>))
    \/ \E tag \in {Ident("foo"), Ident("Date")} : SetExpr(TaggedTpl(tag, <<expr>>))
    \/ SetExpr(TaggedTpl(expr, <<>>))
    \/ SetExpr(Tpl(<<expr>>))
    \/ SetExpr(Cond(expr, Ident("x"), Ident("x")))
    \/ SetExpr(Cond(Ident("x"), expr, Ident("x")))
    \/ SetExpr(Cond(Ident("x"), Ident("x"), expr))
    \/ SetExpr(Member(expr, Ident("p")))
    \/ \E node \in { KeyValue(FALSE, Ident(<<"p">>), expr), KeyValue(TRUE, expr, Num(1)),
                      KeyValue(FALSE, Str(<<"a", "b">>), expr), KeyValue(FALSE, Num(1), expr),
                      Accessor("Getter", TRUE, expr), SpreadProp(expr), Shorthand } :
           SetExpr(Object(<<node>>))
    \/ SetExpr(Await(expr))
    \/ SetExpr(Yield(expr))
    \/ CallIgnoreResult
    \/ CallPreserveEffects
    \/ CallAsBool
    \/ CallAsString
    \/ CallAsNumberExpr
    \/ CallFoldExpr
    \/ CallCalcLiteralCost

SpecExpr == InitExpr /\ [][NextExpr]_vars

----------------------------------------------------------------------------
(* The constant-inlining pass inline_vars() (optimization/inline_vars),    *)
(* after section 4.5 of the specification and the cases of const_tests.rs. *)
(* A name is a sequence of characters.                                     *)

MaxInlineStmts == 4

(* A conventionally constant name: upper-case letters and underscores. *)
IsConstantName(name) ==
    /\ name # <<>>
    /\ \A i \in DOMAIN name :
           name[i] \in {"A", "B", "C", "D", "E", "F", "G", "H", "I", "J", "K", "L", "M",
                        "N", "O", "P", "Q", "R", "S", "T", "U", "V", "W", "X", "Y", "Z",
                        "_"}

IsLiteralPrimitiveNumOnly(e) == e.k = "Lit" /\ e.lit = "Num"

(* A literal primitive: not an array, an object or a regex. *)
IsLiteralPrimitive(e) == e.k = "Lit" /\ e.lit \in {"Num", "Str", "Bool", "Null"}

(* The serialized length of a literal primitive. *)
LitCost(lit) ==
    CASE lit.lit = "Str" -> Len(lit.value) + 2
      [] lit.lit = "Num" -> Len(NumToString(lit.num))
      [] lit.lit = "Bool" -> IF lit.b THEN 4 ELSE 5
      [] lit.lit = "Null" -> 4

(* The references to a name in a node, in source order: its declarations   *)
(* (with the initializer, or NoneE), its assignments and its reads.        *)
RECURSIVE Refs(_, _, _)
Refs(type, node, name) ==
    CASE type = "Stmts" ->
            IF node = <<>> THEN <<>>
            ELSE Refs("Stmt", Head(node), name) \o Refs("Stmts", Tail(node), name)
      [] type = "Stmt" ->
            CASE node.k = "Decl" ->
                    (IF node.name = name
                     THEN <<[ref |-> "decl", value |-> node.init]>> ELSE <<>>)
                        \o Refs("Expr", node.init, name)
              [] node.k = "Expr" -> Refs("Expr", node.expr, name)
              [] node.k = "If" ->
                    Refs("Expr", node.test, name) \o Refs("Stmt", node.cons, name)
                        \o Refs("Stmt", node.alt, name)
              [] OTHER -> <<>>
      [] type = "Expr" ->
            CASE node.k = "Ident" ->
                    IF node.sym = name THEN <<[ref |-> "read", value |-> NoneE]>>
                    ELSE <<>>
              [] node.k = "Assign" ->
                    (IF node.left.sym = name
                     THEN <<[ref |-> "write", value |-> node.right]>> ELSE <<>>)
                        \o Refs("Expr", node.right, name)
              [] node.k = "Call" ->
                    Refs("Expr", node.callee, name) \o Refs("Expr", node.args[1].expr, name)
              [] OTHER -> <<>>

(* The node with every read of the name replaced by a copy of the literal, *)
(* every assignment `name = v` by v and every declaration of the name      *)
(* removed.                                                                *)
RECURSIVE Replace(_, _, _, _)
Replace(type, node, name, lit) ==
    CASE type = "Stmts" ->
            IF node = <<>> THEN <<>>
            ELSE (IF Head(node).k = "Decl" /\ Head(node).name = name THEN <<>>
                  ELSE <<Replace("Stmt", Head(node), name, lit)>>)
                     \o Replace("Stmts", Tail(node), name, lit)
      [] type = "Stmt" ->
            CASE node.k = "Decl" ->
                    IF node.name = name THEN EmptyS
                    ELSE [node EXCEPT !.init = Replace("Expr", node.init, name, lit)]
              [] node.k = "Expr" -> ExprS(Replace("Expr", node.expr, name, lit))
              [] node.k = "If" ->
                    If(Replace("Expr", node.test, name, lit),
                       Replace("Stmt", node.cons, name, lit),
                       Replace("Stmt", node.alt, name, lit))
              [] OTHER -> node
      [] type = "Expr" ->
            CASE node.k = "Ident" -> IF node.sym = name THEN lit ELSE node
              [] node.k = "Assign" ->
                    IF node.left.sym = name THEN Replace("Expr", node.right, name, lit)
                    ELSE [node EXCEPT !.right = Replace("Expr", node.right, name, lit)]
              [] node.k = "Call" ->
                    Call(Replace("Expr", node.callee, name, lit),
                         <<Arg(Replace("Expr", node.args[1].expr, name, lit))>>)
              [] OTHER -> node

AssignmentsOfPrimitives(stmts, name) ==
    SelectSeq(Refs("Stmts", stmts, name),
              LAMBDA r : r.ref \in {"write", "decl"} /\ r.value.k = "Lit"
                                                     /\ r.value.lit # "Regex")

WorthInliningAlways(name, lit, reads) == TRUE

(* The values assigned to the name: initializers and assignments. *)
Assignments(stmts, name) ==
    SelectSeq(Refs("Stmts", stmts, name),
              LAMBDA r : r.ref = "write" \/ (r.ref = "decl" /\ r.value # NoneE))

(* Inlining does not make the output larger: the copies of the literal     *)
(* cost no more than the declaration and one reference by name per read.   *)
WorthInlining(name, lit, reads) ==
    LitCost(lit) * reads <= (6 + Len(name) + LitCost(lit)) + Len(name) * reads

(* The policy and the rewrite for one declared name. *)
InlineVar(stmts, name, forced) ==
    LET refs == Refs("Stmts", stmts, name)
        writes == Assignments(stmts, name)
        reads == Len(SelectSeq(refs, LAMBDA r : r.ref = "read"))
    IN  IF /\ \E i \in DOMAIN refs : refs[i].ref = "decl"
           /\ IsConstantName(name)
           /\ Len(writes) = 1
           /\ IsLiteralPrimitive(writes[1].value)
           /\ forced \/ WorthInlining(name, writes[1].value, reads)
        THEN Replace("Stmts", stmts, name, writes[1].value)
        ELSE stmts

(* The pass over the names of the program, one after the other. *)
RECURSIVE InlineVars(_, _, _)
InlineVars(stmts, names, forced) ==
    IF names = <<>> THEN stmts
    ELSE InlineVars(InlineVar(stmts, Head(names), forced), Tail(names), forced)

(* The programs of the model. *)
AA == <<"A", "A">>
LowerAa == <<"a", "a">>
InlineNames == <<AA, LowerAa>>
LongStr == Str(<<"1", "2", "3", "4", "5", "6", "7", "8", "9", "0">>)

LongerStr ==
    Str(<<"1", "2", "3", "4", "5", "6", "7", "8", "9", "0", "1", "2", "3", "4", "5">>)

InlineStmts ==
    { Decl("Var", AA, init) :
          init \in {NoneE, Num(2), LongStr, LongerStr, ArrayE(<<>>), Regex} }
    \cup { Decl("Var", LowerAa, Num(2)),
           Decl("Var", <<"x">>, Ident(AA)),
           ExprS(Ident(AA)),
           ExprS(Call(Ident(<<"f", "o", "o">>), <<Arg(Ident(AA))>>)),
           ExprS(Assign("=", Ident(AA), Num(1))) }

InitInline ==
    /\ prog = <<>> /\ out = <<>> /\ out2 = <<>> /\ passes = 0 /\ scope = {}
    /\ expr = NoneE /\ called = "none" /\ res = NoneE /\ bres = BV(Pure, Unknown)
    /\ str = <<>> /\ nres = NotCalled /\ sres = NotCalled
    /\ modules = <<>> /\ current = {} /\ threads = <<>> /\ parsed = <<>>
    /\ returned = <<>> /\ ncalls = 0
    /\ ty = NotCalled /\ tres = NotCalled
    /\ lres = NotCalled
    /\ f64 = NaN /\ ires = <<>>
    /\ inline_all_strings \in BOOLEAN

AddInlineStmt(s) ==
    /\ passes = 0 /\ Len(prog) < MaxInlineStmts
    /\ SetProg(Append(prog, s))

(* The last statement, one that assigns to AA, becomes the consequent of   *)
(* `if (false)`, or the last two the branches of `if (false) .. else ..`;  *)
(* a program has one such `if`.                                            *)
WrapInlineIf(n) ==
    /\ passes = 0 /\ Len(prog) >= n
    /\ \A i \in DOMAIN prog : prog[i].k # "If"
    /\ \A i \in DOMAIN LastN(prog, n) : Assignments(<<LastN(prog, n)[i]>>, AA) # <<>>
    /\ SetProg(Append(ButLastN(prog, n),
                      If(Bool(FALSE), prog[Len(prog) - n + 1],
                         IF n = 2 THEN prog[Len(prog)] ELSE NoneS)))

(* inline_vars() folds the program. *)
RunInlineVars ==
    /\ passes = 0
    /\ out' = InlineVars(prog, InlineNames, inline_all_strings)
    /\ passes' = 1
    /\ UNCHANGED <<modules, current, threads, parsed, returned, ncalls, ty, tres, lres, f64, ires, inline_all_strings, sres, prog, out2, scope, expr, called, res, bres,
                   str, nres>>

NextInline ==
    \/ \E s \in InlineStmts : AddInlineStmt(s)
    \/ \E n \in 1..2 : WrapInlineIf(n)
    \/ RunInlineVars

SpecInline == InitInline /\ [][NextInline]_vars

----------------------------------------------------------------------------
(* The numbers of the model: to_int32 applied to integers at and around    *)
(* the powers 2^31, 2^32 and 2^33, to NaN and to the infinities.           *)

HighParts == {0, 1, 32767, 32768, 32769, 65535, 65536, 65537, 98304, 131071}
LowParts == {0, 1, 32768, 65535}

InitInt ==
    /\ prog = <<>> /\ out = <<>> /\ out2 = <<>> /\ passes = 0 /\ scope = {}
    /\ expr = NoneE /\ called = "none" /\ res = NoneE /\ bres = BV(Pure, Unknown)
    /\ str = <<>> /\ nres = NotCalled /\ sres = NotCalled
    /\ modules = <<>> /\ current = {} /\ threads = <<>> /\ parsed = <<>>
    /\ returned = <<>> /\ ncalls = 0
    /\ ty = NotCalled /\ tres = NotCalled
    /\ lres = NotCalled
    /\ inline_all_strings = FALSE
    /\ ires = <<>>
    /\ f64 \in {NaN, Infinite(FALSE), Infinite(TRUE)}
               \cup { Integral(neg, hi, lo) :
                          neg \in BOOLEAN, hi \in HighParts, lo \in LowParts }

(* to_int32(d) *)
CallToInt32 ==
    /\ ires = <<>>
    /\ \E r \in ToInt32(f64) : ires' = <<r>>
    /\ UNCHANGED <<modules, current, threads, parsed, returned, ncalls, ty, tres, lres, f64, prog, out, out2, passes, scope, expr, called, res, bres, str,
                   nres, sres, inline_all_strings>>

NextInt == CallToInt32

SpecInt == InitInt /\ [][NextInt]_vars

-----------------------------------------------------------------------------
(* Type narrowing of the TypeScript checker (analyzer/control_flow.rs).    *)
(* A type is a keyword type, a literal type, a union or an intersection.   *)

TsKeywordType(kind) == [t |-> "Keyword", kind |-> kind]

TsLitBool(value) == [t |-> "Lit", lit |-> "Bool", value |-> value]

TsLitStr(s) == [t |-> "Lit", lit |-> "Str", s |-> s]

TsUnionType(types) == [t |-> "Union", types |-> types]

TsIntersectionType(types) == [t |-> "Intersection", types |-> types]

never_ty == TsKeywordType("never")

(* is_never as written: false on the `never` keyword, true on every other  *)
(* type.                                                                   *)
is_never(type) ==
    IF type.t = "Keyword" /\ type.kind = "never" THEN FALSE ELSE TRUE

(* remove_falsy / remove_truthy; op names the method, and the impls for    *)
(* TsType, TsUnionOrIntersectionType, TsIntersectionType and TsUnionType   *)
(* are the arms.                                                           *)
RECURSIVE RemoveTypes(_, _)
RemoveTypes(op, type) ==
    CASE type.t = "Union" ->
            TsUnionType(SelectSeq(
                [i \in DOMAIN type.types |-> RemoveTypes(op, type.types[i])],
                LAMBDA m : ~is_never(m)))
      [] type.t = "Intersection" ->
            LET types == [i \in DOMAIN type.types |->
                            RemoveTypes(op, type.types[i])]
            IN  IF \E i \in DOMAIN types : is_never(types[i])
                THEN never_ty
                ELSE TsIntersectionType(types)
      [] type.t = "Keyword" ->
            IF op = "remove_falsy" /\ type.kind \in {"undefined", "null"}
            THEN never_ty
            ELSE type
      [] type.t = "Lit" ->
            IF type.lit = "Bool" /\ type.value = (op = "remove_truthy")
            THEN never_ty
            ELSE type

remove_falsy(type) == RemoveTypes("remove_falsy", type)

remove_truthy(type) == RemoveTypes("remove_truthy", type)

MaxMembers == 3

TypeAtoms ==
    {TsKeywordType("string"), TsKeywordType("number"),
     TsKeywordType("undefined"), TsKeywordType("null"), never_ty,
     TsLitBool(TRUE), TsLitBool(FALSE), TsLitStr(<<"a">>)}

TypeMembers ==
    TypeAtoms \cup
    {TsIntersectionType(<<TsKeywordType("string"), TsLitStr(<<"a">>)>>),
     TsUnionType(<<TsKeywordType("number"), TsKeywordType("null")>>)}

InitTypes ==
    /\ prog = <<>> /\ out = <<>> /\ out2 = <<>> /\ passes = 0 /\ scope = {}
    /\ expr = NoneE /\ called = "none" /\ res = NoneE /\ bres = BV(Pure, Unknown)
    /\ str = <<>> /\ nres = NotCalled /\ sres = NotCalled
    /\ modules = <<>> /\ current = {} /\ threads = <<>> /\ parsed = <<>>
    /\ returned = <<>> /\ ncalls = 0
    /\ inline_all_strings = FALSE
    /\ f64 = NaN /\ ires = <<>>
    /\ lres = NotCalled
    /\ ty \in TypeAtoms /\ tres = NotCalled

(* The type a control-flow fact is about gains one more union member.      *)
AddUnionMember ==
    /\ \E m \in TypeMembers :
          IF ty.t = "Union"
          THEN /\ Len(ty.types) < MaxMembers
               /\ ty' = TsUnionType(Append(ty.types, m))
          ELSE ty' = TsUnionType(<<ty, m>>)
    /\ called' = "none" /\ tres' = NotCalled
    /\ UNCHANGED <<modules, current, threads, parsed, returned, ncalls, prog, out, out2, passes, scope, expr, res, bres, str, nres,
                   sres, inline_all_strings, f64, ires, lres>>

(* The type becomes an intersection with one more type.                    *)
AddIntersectionMember ==
    /\ ty.t # "Union"
    /\ \E m \in TypeAtoms :
          IF ty.t = "Intersection"
          THEN /\ Len(ty.types) < MaxMembers
               /\ ty' = TsIntersectionType(Append(ty.types, m))
          ELSE ty' = TsIntersectionType(<<ty, m>>)
    /\ called' = "none" /\ tres' = NotCalled
    /\ UNCHANGED <<modules, current, threads, parsed, returned, ncalls, prog, out, out2, passes, scope, expr, res, bres, str, nres,
                   sres, inline_all_strings, f64, ires, lres>>

CallRemoveFalsy ==
    /\ called' = "remove_falsy" /\ tres' = remove_falsy(ty)
    /\ UNCHANGED <<modules, current, threads, parsed, returned, ncalls, prog, out, out2, passes, scope, expr, res, bres, str, nres,
                   sres, inline_all_strings, f64, ires, lres, ty>>

CallRemoveTruthy ==
    /\ called' = "remove_truthy" /\ tres' = remove_truthy(ty)
    /\ UNCHANGED <<modules, current, threads, parsed, returned, ncalls, prog, out, out2, passes, scope, expr, res, bres, str, nres,
                   sres, inline_all_strings, f64, ires, lres, ty>>

NextTypes ==
    \/ AddUnionMember
    \/ AddIntersectionMember
    \/ CallRemoveFalsy
    \/ CallRemoveTruthy

SpecTypes == InitTypes /\ [][NextTypes]_vars

-----------------------------------------------------------------------------
(* The module cache of the TypeScript checker (checker/src/lib.rs).        *)
(* Several callers run load_module on one Checker; every operation on the  *)
(* two concurrent maps `modules` and `current` is one atomic step, and the *)
(* parse and the analysis between them are a step of their own.            *)

NumThreads == 2

MaxCalls == 3

Threads == 1..NumThreads

Paths == {"a.ts", "b.ts"}

IdleThread == [pc |-> "idle", path |-> "", res |-> 0]

InitLoad ==
    /\ prog = <<>> /\ out = <<>> /\ out2 = <<>> /\ passes = 0 /\ scope = {}
    /\ expr = NoneE /\ called = "none" /\ res = NoneE /\ bres = BV(Pure, Unknown)
    /\ str = <<>> /\ nres = NotCalled /\ sres = NotCalled
    /\ inline_all_strings = FALSE
    /\ f64 = NaN /\ ires = <<>>
    /\ lres = NotCalled
    /\ ty = NotCalled /\ tres = NotCalled
    /\ modules = [p \in Paths |-> 0]
    /\ current = {}
    /\ threads = [t \in Threads |-> IdleThread]
    /\ parsed = [p \in Paths |-> 0]
    /\ returned = [p \in Paths |-> {}]
    /\ ncalls = 0

LoadUnchanged ==
    UNCHANGED <<prog, out, out2, passes, scope, expr, called, res, bres, str,
                nres, sres, inline_all_strings, f64, ires, lres, ty, tres>>

(* `let cached = self.modules.get(&path)`: a hit returns the cached value, *)
(* a miss goes on to load the file.                                        *)
GetCached(t, path) ==
    /\ threads[t].pc = "idle"
    /\ ncalls < MaxCalls
    /\ ncalls' = ncalls + 1
    /\ IF modules[path] # 0
       THEN /\ returned' = [returned EXCEPT ![path] = @ \cup {modules[path]}]
            /\ UNCHANGED threads
       ELSE /\ threads' = [threads EXCEPT ![t] =
                              [pc |-> "mark", path |-> path, res |-> 0]]
            /\ UNCHANGED returned
    /\ UNCHANGED <<modules, current, parsed>>
    /\ LoadUnchanged

(* `self.current.insert(path.clone(), ())` *)
InsertCurrent(t) ==
    /\ threads[t].pc = "mark"
    /\ current' = current \cup {threads[t].path}
    /\ threads' = [threads EXCEPT ![t].pc = "parse"]
    /\ UNCHANGED <<modules, parsed, returned, ncalls>>
    /\ LoadUnchanged

(* The file is read, parsed and analyzed, and the pair is wrapped in a new *)
(* Arc; the n-th ModuleInfo built for a path is written n.                 *)
ParseAndAnalyze(t) ==
    /\ threads[t].pc = "parse"
    /\ parsed' = [parsed EXCEPT ![threads[t].path] = @ + 1]
    /\ threads' = [threads EXCEPT ![t].pc = "store",
                                  ![t].res = parsed[threads[t].path] + 1]
    /\ UNCHANGED <<modules, current, returned, ncalls>>
    /\ LoadUnchanged

(* `self.modules.insert(path.clone(), res.clone())` *)
InsertModule(t) ==
    /\ threads[t].pc = "store"
    /\ modules' = [modules EXCEPT ![threads[t].path] = threads[t].res]
    /\ threads' = [threads EXCEPT ![t].pc = "unmark"]
    /\ UNCHANGED <<current, parsed, returned, ncalls>>
    /\ LoadUnchanged

(* `self.current.remove(&path)` and the return of `res`. *)
RemoveCurrent(t) ==
    /\ threads[t].pc = "unmark"
    /\ current' = current \ {threads[t].path}
    /\ returned' = [returned EXCEPT ![threads[t].path] = @ \cup {threads[t].res}]
    /\ threads' = [threads EXCEPT ![t] = IdleThread]
    /\ UNCHANGED <<modules, parsed, ncalls>>
    /\ LoadUnchanged

load_module(t) ==
    \/ \E path \in Paths : GetCached(t, path)
    \/ InsertCurrent(t)
    \/ ParseAndAnalyze(t)
    \/ InsertModule(t)
    \/ RemoveCurrent(t)

NextLoad == \E t \in Threads : load_module(t)

SpecLoad == InitLoad /\ [][NextLoad]_vars

----------------------------------------------------------------------------
(* The strings of the model: as_number applied to a string literal.       *)

Alphabet == {"0", "1", "a", "F", "x", "X", "-", " "}

InitNum ==
    /\ prog = <<>> /\ out = <<>> /\ out2 = <<>> /\ passes = 0 /\ scope = {}
    /\ expr = NoneE /\ called = "none" /\ res = NoneE /\ bres = BV(Pure, Unknown)
    /\ str = <<>> /\ nres = NotCalled /\ sres = NotCalled
    /\ modules = <<>> /\ current = {} /\ threads = <<>> /\ parsed = <<>>
    /\ returned = <<>> /\ ncalls = 0
    /\ ty = NotCalled /\ tres = NotCalled
    /\ lres = NotCalled
    /\ f64 = NaN /\ ires = <<>>
    /\ inline_all_strings = FALSE

(* One more character of the literal. *)
AddChar(c) ==
    /\ nres = NotCalled /\ Len(str) < MaxStrLen
    /\ str' = Append(str, c)
    /\ UNCHANGED <<modules, current, threads, parsed, returned, ncalls, ty, tres, lres, f64, ires, inline_all_strings, sres, prog, out, out2, passes, scope, expr, called, res, bres, nres>>

(* The word infinity, in one of its casings, after at most one character. *)
AddWord(w) ==
    /\ nres = NotCalled /\ Len(str) <= 1
    /\ str' = str \o w
    /\ UNCHANGED <<modules, current, threads, parsed, returned, ncalls, ty, tres, lres, f64, ires, inline_all_strings, sres, prog, out, out2, passes, scope, expr, called, res, bres, nres>>

(* Lit::Str(value).as_number(): num_from_str(value) *)
CallAsNumber ==
    /\ nres = NotCalled
    /\ nres' \in NumFromStrOutcomes(str)
    /\ UNCHANGED <<modules, current, threads, parsed, returned, ncalls, ty, tres, lres, f64, ires, inline_all_strings, sres, prog, out, out2, passes, scope, expr, called, res, bres, str>>

NextNum ==
    \/ \E c \in Alphabet : AddChar(c)
    \/ \E w \in InfinityWords : AddWord(w)
    \/ CallAsNumber

SpecNum == InitNum /\ [][NextNum]_vars

----------------------------------------------------------------------------
(* Properties of the Simplifier (specification Spec).                      *)

RECURSIVE StmtKinds(_), ListKinds(_)

(* The kinds of the statements of a list, nested ones included. *)
ListKinds(stmts) ==
    IF stmts = <<>> THEN {} ELSE StmtKinds(Head(stmts)) \cup ListKinds(Tail(stmts))

StmtKinds(s) ==
    {s.k} \cup
    CASE s.k = "Block" -> ListKinds(s.stmts)
      [] s.k = "If" -> StmtKinds(s.cons)
                          \cup (IF s.alt.k = "None" THEN {} ELSE StmtKinds(s.alt))
      [] s.k = "While" -> StmtKinds(s.body)
      [] s.k = "Try" ->
            ListKinds(s.block)
                \cup (IF s.handler.k = "None" THEN {} ELSE ListKinds(s.handler.body))
                \cup (IF s.finalizer.k = "None" THEN {} ELSE ListKinds(s.finalizer.stmts))
      [] OTHER -> {}

(* C1: idempotence of the Simplifier. For every statement list over if /   *)
(* block / try / expression / return statements, a second pass of dce over *)
(* the output of the first returns that output unchanged.                  *)
C1_Idempotence ==
    (passes = 2 /\ ListKinds(prog) \subseteq {"If", "Block", "Try", "Expr", "Return"})
        => out2 = out

(* C2: dead-code truncation. The statement-list fold folds the elements in *)
(* order; when the fold of the element at index i (the first one to do so) *)
(* is a throw, return, continue or break, the output ends with that        *)
(* statement, is the output for the list cut after index i, and holds at   *)
(* most i items: nothing that followed index i in the input is in it.      *)
C2_DeadCodeTruncation ==
    passes >= 1 =>
        \A i \in DOMAIN prog :
            (/\ FoldStmt(prog[i]).k \in Transfers
             /\ \A j \in 1..(i - 1) : FoldStmt(prog[j]).k \notin Transfers \cup {"Abort"})
            => /\ out # <<>>
               /\ out[Len(out)] = FoldStmt(prog[i])
               /\ out = FoldStmts(SubSeq(prog, 1, i))
               /\ Len(out) <= i

(* `foo(); return; foo();` was folded to `foo(); return;`. *)
C2_Witness ==
    /\ passes >= 1
    /\ prog = <<ExprS(CallFoo), Return(NoneE), ExprS(CallFoo)>>
    /\ out = <<ExprS(CallFoo), Return(NoneE)>>

(* C6: block unwrapping keeps lexical scoping. When no let / const / class *)
(* / function declaration is an item of the input list itself (each is     *)
(* inside a block), none is an item of the output list.                    *)
C6_LexicalDeclStaysInBlock ==
    (passes >= 1 /\ \A i \in DOMAIN prog : ~IsLexicalDecl(prog[i]))
        => \A i \in DOMAIN out : ~IsLexicalDecl(out[i])

(* C7: conditional fold of every if. No if whose test is pure and known    *)
(* is left in the output as the body of a loop.                            *)
C7_FoldsEveryIf ==
    passes >= 1 =>
        \A i \in DOMAIN out :
            (out[i].k = "While" /\ out[i].body.k = "If")
                => ~(AsBool(out[i].body.test).p = Pure
                     /\ AsBool(out[i].body.test).v # Unknown)

----------------------------------------------------------------------------
(* Properties of the Reducer and the Lattice (specification SpecExpr).     *)

(* C3: soundness of effect-dropping. When ignore_result(expr) is None,     *)
(* may_have_side_effects(expr) is false.                                   *)
C3_DroppedMeansPure ==
    (called = "ignore_result" /\ res = NoneE) => ~MayHaveSideEffects(expr)

(* C4: purity invariant of as_bool. When as_bool(expr) reports Pure,       *)
(* may_have_side_effects(expr) is false.                                   *)
C4_PureMeansNoEffect ==
    (called = "as_bool" /\ bres.p = Pure) => ~MayHaveSideEffects(expr)

(* C5: folding is total. ignore_result(expr) returns without aborting.     *)
C5_IgnoreResultTotal ==
    called = "ignore_result" => res # AbortE

IsBitwise(e) == e.k = "Bin" /\ e.op \in {"&", "|"}

(* C8: as_bool on bitwise operators. For `a & b` and `a | b` with both     *)
(* operands Pure, the result is Pure with the three-valued AND of the      *)
(* operands' values for `&` and their three-valued OR for `|`.             *)
C8_BitwiseAndOr ==
    (/\ called = "as_bool" /\ IsBitwise(expr)
     /\ AsBool(expr.left).p = Pure /\ AsBool(expr.right).p = Pure)
    => bres = BV(Pure, IF expr.op = "&"
                       THEN ValueAnd(AsBool(expr.left).v, AsBool(expr.right).v)
                       ELSE ValueOr(AsBool(expr.left).v, AsBool(expr.right).v))

RECURSIVE BitAnd(_, _), BitOr(_, _)

(* The bitwise AND / OR of two naturals below 2^31, which ToInt32 leaves   *)
(* as they are.                                                            *)
BitAnd(a, b) ==
    IF a = 0 \/ b = 0 THEN 0
    ELSE 2 * BitAnd(a \div 2, b \div 2) + (IF a % 2 = 1 /\ b % 2 = 1 THEN 1 ELSE 0)

BitOr(a, b) ==
    IF a = 0 THEN b
    ELSE IF b = 0 THEN a
    ELSE 2 * BitOr(a \div 2, b \div 2) + (IF a % 2 = 1 \/ b % 2 = 1 THEN 1 ELSE 0)

IsNum(e) == e.k = "Lit" /\ e.lit = "Num"

(* C9: coercion fidelity of as_bool on bitwise expressions. For numeric    *)
(* literals a, b in 0..MaxNum, when as_bool(a & b) or as_bool(a | b) is    *)
(* Known(v), v is true iff the 32-bit bitwise result is non-zero.          *)
C9_BitwiseToBoolean ==
    (/\ called = "as_bool" /\ IsBitwise(expr)
     /\ IsNum(expr.left) /\ IsNum(expr.right)
     /\ bres.v # Unknown)
    => bres.v = Known(IF expr.op = "&"
                      THEN BitAnd(expr.left.num, expr.right.num) # 0
                      ELSE BitOr(expr.left.num, expr.right.num) # 0)

----------------------------------------------------------------------------
(* Properties of as_number on strings (specification SpecNum).             *)

RECURSIVE HexVal(_)

(* The base-16 value of a string of hexadecimal digits. *)
HexVal(ds) ==
    IF ds = <<>> THEN 0
    ELSE 16 * HexVal(SubSeq(ds, 1, Len(ds) - 1)) + DigitVal(ds[Len(ds)])

(* `0x` or `0X` followed by one or more hexadecimal digits. *)
IsHexLiteral(s) ==
    /\ Len(s) >= 3
    /\ s[1] = "0" /\ s[2] \in {"x", "X"}
    /\ \A i \in 3..Len(s) : s[i] \in Digits \cup HexLetters

(* C10: as_number on hexadecimal strings. For a string that, trimmed, is   *)
(* 0x / 0X followed by hexadecimal digits, as_number returns Known(n) with *)
(* n the base-16 value of the digits, and does not abort.                  *)
C10_HexStrings ==
    (nres # NotCalled /\ IsHexLiteral(Trim(str)))
        => nres = KnownNum(HexVal(SubSeq(Trim(str), 3, Len(Trim(str)))))

(* An optional sign and the word infinity in some casing. *)
IsInfinityWord(s) ==
    \/ s \in InfinityWords
    \/ s # <<>> /\ s[1] \in {"+", "-"} /\ Tail(s) \in InfinityWords

(* C11: as_number on the word infinity. For a string that, trimmed, is the *)
(* word infinity in any casing with an optional sign, as_number returns    *)
(* Unknown.                                                                *)
C11_InfinityUnknown ==
    (nres # NotCalled /\ IsInfinityWord(Trim(str))) => nres = UnknownNum

(* `null`, `undefined` and a hole are the empty string inside an array. *)
RendersEmpty(el) ==
    \/ IsHole(el)
    \/ el.expr.k = "Lit" /\ el.expr.lit = "Null"
    \/ IsIdentRefTo(el.expr, "undefined")

(* s1 + "," + s2 + ... + "," + sn *)
RECURSIVE JoinWithCommas(_)
JoinWithCommas(strs) ==
    IF strs = <<>> THEN <<>>
    ELSE IF Len(strs) = 1 THEN strs[1]
    ELSE strs[1] \o <<",">> \o JoinWithCommas(Tail(strs))

(* C12: as_string of an array literal [e1, ..., en] is Unknown when the    *)
(* string of some element is Unknown, and otherwise Known(s1,s2,...,sn):   *)
(* the strings of the elements in order with one comma between each two    *)
(* neighbours, where a hole, null and undefined give the empty string.     *)
C12_ArrayJoin ==
    (/\ called = "as_string"
     /\ expr.k = "Array"
     /\ \A i \in DOMAIN expr.elems :
            /\ ~expr.elems[i].spread
            /\ RendersEmpty(expr.elems[i]) \/ AsString(expr.elems[i].expr) # AbortNum)
    => LET one(el) == IF RendersEmpty(el) THEN KnownStr(<<>>) ELSE AsString(el.expr)
           strs == [i \in DOMAIN expr.elems |-> one(expr.elems[i])]
       IN  IF \E i \in DOMAIN strs : strs[i] = UnknownNum
           THEN sres = UnknownNum
           ELSE sres = KnownStr(JoinWithCommas([i \in DOMAIN strs |-> strs[i].s]))

(* C13: for a template literal with embedded expressions as_string returns *)
(* Unknown and as_number returns Unknown; neither call aborts.             *)
C13_TemplateUnknown ==
    (expr.k = "Tpl" /\ expr.exprs # <<>>)
    => /\ called = "as_string" => sres = UnknownNum
       /\ called = "as_number" => nres = UnknownNum

(* C14: ignore_result of a leaf, that is of a number, boolean, string,     *)
(* null or regex literal or of an identifier, is None (the expression      *)
(* statement that holds it is removed).                                    *)
C14_LeavesDropped ==
    (called = "ignore_result" /\ expr.k \in {"Lit", "Ident"}) => res = NoneE

(* C15: folding a sequence expression (e1, ..., en) applies ignore_result  *)
(* to e1 .. e(n-1) only: the folded last element is kept as the last       *)
(* element of the result, after what is left of the others in order.       *)
C15_SeqKeepsLast ==
    (called = "fold" /\ expr.k = "Seq" /\ res # AbortE)
    => LET n == Len(expr.exprs)
           folded == [i \in 1..n |-> FoldExpr(expr.exprs[i])]
       IN  /\ res.k = "Seq"
           /\ res.exprs = FlatMapIgnore(SubSeq(folded, 1, n - 1)) \o <<folded[n]>>

(* C16: preserve_effects(span, val, exprs) returns val itself when nothing *)
(* in exprs contributes an effect, and otherwise a sequence expression     *)
(* whose last element is val and whose other elements are kept effectful   *)
(* sub-expressions of exprs (update, assignment, yield, await,             *)
(* meta-property, member access, call, conditional, and new other than     *)
(* the zero-argument `new Date`).                                          *)
C16_PreserveEffectsShape ==
    called = "preserve_effects"
    => LET kept(e) ==
               \/ e.k \in {"Update", "Assign", "Yield", "Await", "MetaProp",
                           "Member", "Call", "Cond"}
               \/ e.k = "New" /\ AddEffectsNew(e) # <<>>
           n == Len(res.exprs)
       IN  \/ res = Undefined
           \/ /\ res.k = "Seq"
              /\ n >= 2
              /\ res.exprs[n] = Undefined
              /\ \A i \in 1..(n - 1) : kept(res.exprs[i])

(* C17: may_have_side_effects of an object literal is true if and only if  *)
(* the literal holds a spread element (whatever is spread), or a key-value *)
(* property whose computed key or whose value may have side effects.       *)
C17_ObjectImpureIff ==
    expr.k = "Object"
    => (MayHaveSideEffects(expr)
        <=> \E i \in DOMAIN expr.props :
               LET node == expr.props[i] IN
               \/ node.p = "Spread"
               \/ /\ node.p = "KeyValue"
                  /\ \/ node.computed /\ MayHaveSideEffects(node.key)
                     \/ MayHaveSideEffects(node.value))

(* C18: a try statement whose folded try block is empty is replaced by its *)
(* finally block, or by nothing when it has no finally; otherwise, when    *)
(* the catch and the finally are both empty or absent, it is replaced by a *)
(* block of the try block's statements; otherwise it is kept as it is      *)
(* after the fold of its children.                                         *)
C18_TryFolding ==
    (passes >= 1 /\ Len(prog) = 1 /\ prog[1].k = "Try" /\ ~VecAborted(out))
    => LET t == FoldStmtChildren(prog[1])
           noCatch == t.handler.k = "None" \/ t.handler.body = <<>>
           noFinally == t.finalizer.k = "None" \/ t.finalizer.stmts = <<>>
       IN  out = IF t.block = <<>>
                 THEN (IF t.finalizer.k = "None" THEN <<>> ELSE <<t.finalizer>>)
                 ELSE IF noCatch /\ noFinally THEN <<Block(t.block)>>
                 ELSE <<t>>

(* `try { foo(); } catch (e) {}` was folded to `{ foo(); }`. *)
C18_Witness ==
    /\ passes >= 1
    /\ prog = <<Try(<<ExprS(CallFoo)>>, Catch(<<>>), NoneS)>>
    /\ out = <<Block(<<ExprS(CallFoo)>>)>>

(* C19: an if statement without alternate whose consequent is an empty     *)
(* statement or an empty block is replaced by the expression statement of  *)
(* ignore_result(test) when that is Some, and by an empty statement, which *)
(* the statement list drops, when it is None.                              *)
C19_IfEmptyConsequent ==
    (/\ passes >= 1 /\ Len(prog) = 1 /\ prog[1].k = "If"
     /\ StmtIsEmpty(prog[1].cons) /\ prog[1].alt.k = "None"
     /\ ~VecAborted(out))
    => LET r == IgnoreResult(FoldExpr(prog[1].test))
       IN  out = IF r = NoneE THEN <<>> ELSE <<ExprS(r)>>

(* `if (foo()) {}` was folded to `foo();`. *)
C19_Witness ==
    /\ passes >= 1
    /\ prog = <<If(CallFoo, Block(<<>>), NoneS)>>
    /\ out = <<ExprS(CallFoo)>>

(* The binding AA of the program is declared, constant-named and has       *)
(* exactly one effective assignment, of a literal primitive.               *)
OneLiteralAssignment ==
    /\ \E i \in DOMAIN Refs("Stmts", prog, AA) : Refs("Stmts", prog, AA)[i].ref = "decl"
    /\ IsConstantName(AA)
    /\ Len(Assignments(prog, AA)) = 1
    /\ Assignments(prog, AA)[1].value.k = "Lit"
    /\ Assignments(prog, AA)[1].value.lit \in {"Num", "Str", "Bool", "Null"}

(* Nothing of AA is left in the output: no read, no assignment and no      *)
(* declaration; the statements that are not its declaration are all there. *)
InlinedAway ==
    /\ Refs("Stmts", out, AA) = <<>>
    /\ Len(out) = Len(SelectSeq(prog, LAMBDA st : ~(st.k = "Decl" /\ st.name = AA)))

C23_KnownStringMeansPure ==
    (called = "as_string" /\ sres.v = "Known") => ~MayHaveSideEffects(expr)

(* C24: to_int32 is ToInt32 on integers. For an integer d the result is    *)
(* the integer r of -2^31 .. 2^31 - 1 with r congruent to d modulo 2^32;   *)
(* NaN and the infinities give 0.                                          *)
C24_ToInt32Exact ==
    ires # <<>>
    => IF f64.f \in {"NaN", "Inf"} THEN ires[1] = 0
       ELSE LET rl == ires[1] % 65536          \* ires = rh * 2^16 + rl
                rh == (ires[1] - rl) \div 65536
            IN  /\ -32768 <= rh /\ rh <= 32767
                /\ IF ~f64.neg
                   THEN rl = f64.lo /\ (rh - f64.hi) % 65536 = 0
                   ELSE IF f64.lo = 0
                        THEN rl = 0 /\ (rh + f64.hi) % 65536 = 0
                        ELSE rl = 65536 - f64.lo /\ (rh + f64.hi + 1) % 65536 = 0

(* to_int32(-(2^32 + 2^31 + 1)) returned 2^31 - 1, and to_int32(2^31)      *)
(* returned -2^31.                                                         *)
C24_Witness ==
    \/ f64 = Integral(TRUE, 98304, 1) /\ ires = <<2147483647>>
    \/ f64 = Integral(FALSE, 32768, 0) /\ ires = <<-2147483647 - 1>>

(* C25: no empty statement is an item of the list the statement-list fold  *)
(* returns, whatever rewrite produced the item.                            *)
C25_NoEmptyStatementInList ==
    (passes >= 1 /\ ~VecAborted(out)) => \A i \in DOMAIN out : out[i].k # "Empty"

(* C26: neither ignore_result nor the fold of a sequence expression        *)
(* returns a sequence expression with zero elements.                       *)
C26_NoEmptySequence ==
    (called \in {"ignore_result", "fold"} /\ res.k = "Seq") => res.exprs # <<>>

(* What C27 says of is_literal: no identifier, regex, template literal     *)
(* with embedded expressions, spread, computed or non-key-value property   *)
(* and no expression of another kind is in the subtree.                    *)
RECURSIVE ClaimedLiteral(_)
ClaimedLiteral(e) ==
    CASE e.k = "Lit" -> e.lit # "Regex"
      [] e.k = "Tpl" -> e.exprs = <<>>
      [] e.k = "Paren" -> ClaimedLiteral(e.expr)
      [] e.k = "Array" ->
            \A i \in DOMAIN e.elems :
                \/ IsHole(e.elems[i])
                \/ ~e.elems[i].spread /\ ClaimedLiteral(e.elems[i].expr)
      [] e.k = "Object" ->
            \A i \in DOMAIN e.props :
                /\ e.props[i].p = "KeyValue"
                /\ ~e.props[i].computed
                /\ ClaimedLiteral(e.props[i].value)
      [] OTHER -> FALSE

(* What C27 says of the cost of a literal. *)
RECURSIVE ClaimedCost(_), ClaimedCostOfAll(_)
ClaimedCostOfAll(exprs) ==
    IF exprs = <<>> THEN 0
    ELSE ClaimedCost(Head(exprs)) + ClaimedCostOfAll(Tail(exprs))

ClaimedCost(e) ==
    CASE e.k = "Paren" -> ClaimedCost(e.expr)
      [] e.k = "Array" ->
            2 + Len(e.elems)
              + ClaimedCostOfAll([i \in DOMAIN e.elems |-> e.elems[i].expr])
      [] e.k = "Object" ->
            ClaimedCostOfAll([i \in DOMAIN e.props |-> e.props[i].value])
              + ClaimedCostOfAll([i \in DOMAIN e.props |->
                    LET key == e.props[i].key IN
                    CASE key.k = "Ident" -> [k |-> "Key", cost |-> 3 + Len(key.sym)]
                      [] key.lit = "Str" -> [k |-> "Key", cost |-> 3 + Len(key.value)]
                      [] key.lit = "Num" -> [k |-> "Key", cost |-> 6]])
      [] e.k = "Key" -> e.cost
      [] OTHER -> 0

(* C27: calc_literal_cost(e, true) returns is_literal = false when the     *)
(* subtree of e holds an identifier, a regex, a template literal with      *)
(* embedded expressions, a spread, a computed or non-key-value property or *)
(* an expression of a blacklisted kind; otherwise is_literal = true and    *)
(* the cost is the sum of 2 + element count over the array literals, of    *)
(* 3 + key length over the string- or identifier-keyed properties and of 6 *)
(* over the numeric-keyed properties.                                      *)
C27_LiteralClassifier ==
    called = "calc_literal_cost"
    => /\ lres.is_lit = ClaimedLiteral(expr)
       /\ lres.is_lit => lres.cost = ClaimedCost(expr)

(* The members of a union the narrowing is claimed to keep.                *)
IsAtomType(type) == type.t \in {"Keyword", "Lit"}

ClaimedFalsy(type) ==
    type \in {TsKeywordType("undefined"), TsKeywordType("null"),
              TsLitBool(FALSE)}

ClaimedTruthy(type) == type = TsLitBool(TRUE)

(* C28: for a union U of keyword and literal types, remove_falsy(U) is the *)
(* union of the members of U that are not undefined, null or the literal   *)
(* false, in order, and remove_truthy(U) is the union of the members that  *)
(* are not the literal true.                                               *)
C28_UnionNarrowing ==
    /\ ty.t = "Union"
    /\ \A i \in DOMAIN ty.types :
          IsAtomType(ty.types[i]) /\ ty.types[i] # never_ty
    => /\ called = "remove_falsy"
            => tres = TsUnionType(SelectSeq(ty.types,
                                    LAMBDA m : ~ClaimedFalsy(m)))
       /\ called = "remove_truthy"
            => tres = TsUnionType(SelectSeq(ty.types,
                                    LAMBDA m : ~ClaimedTruthy(m)))

(* C29: a try statement whose folded try block is not empty and which has  *)
(* a catch clause, even one with an empty body, is still a try statement   *)
(* with a catch clause after the pass.                                     *)
C29_CatchClauseKept ==
    (passes >= 1 /\ Len(prog) = 1 /\ prog[1].k = "Try" /\ ~VecAborted(out))
    => LET t == FoldStmtChildren(prog[1])
       IN  (t.block # <<>> /\ t.handler.k # "None")
           => /\ Len(out) = 1
              /\ out[1].k = "Try"
              /\ out[1].handler.k # "None"

(* No call of load_module for the path is in flight.                       *)
AllReturned(path) ==
    \A t \in Threads : threads[t].pc = "idle" \/ threads[t].path # path

(* C30: under every interleaving of load_module calls on one Checker each  *)
(* path is parsed and analyzed at most once, all the callers for a path    *)
(* receive the same ModuleInfo, and once every call for a path has         *)
(* returned the path is in `modules` and not in `current`.                 *)
C30_ModuleCache ==
    ncalls > 0
    => \A path \in Paths :
          /\ parsed[path] <= 1
          /\ Cardinality(returned[path]) <= 1
          /\ (returned[path] # {} /\ AllReturned(path))
                => modules[path] # 0 /\ path \notin current

====
